---- MODULE Spec2Model ----
(***************************************************************************)
(* Central SSO JWT: the token issuance and exchange protocol.              *)
(*                                                                         *)
(* State: the in-memory stores of session.store.ts and token.store.ts,     *)
(* the clock read by Date.now(), and the requests that are suspended at an *)
(* await.  One action per handler, or per synchronous stretch of a handler *)
(* between two awaits (Node runs each stretch to completion).              *)
(*                                                                         *)
(* Strings that the code takes apart (redirect URIs, e-mail addresses) are *)
(* sequences of segments: a segment is one special character or a chunk of *)
(* ordinary characters.  Random values (state, code verifier, exchange     *)
(* code, refresh token) are numbered in the order they are drawn.          *)
(***************************************************************************)
EXTENDS Integers, Sequences, FiniteSets, TLC

(***************************************************************************)
(* Bounds of the model.                                                    *)
(***************************************************************************)
MaxSessions == 1      \* logins that store a session (session specification)
MaxIssued == 1        \* logins that store a session (token specifications)
MaxRefresh == 3       \* refresh tokens ever created
MaxSignups == 1       \* sign-ups that store a continuation token
MaxTicks == 2         \* clock steps of one size
MaxSpokeSessions == 2 \* sign-ins of two spoke apps side by side
MaxStarts == 2        \* start requests of one native flow that store a token
MaxBrowserLogins == 2 \* logins one browser makes before it returns

(***************************************************************************)
(* Program constants and configuration.                                    *)
(***************************************************************************)
SESSION_EXPIRATION_MS == 10 * 60 * 1000
EXCHANGE_CODE_TTL_MS == 5 * 60 * 1000
SIGNUP_TOKEN_TTL_MS == 10 * 60 * 1000
refreshTokenExpirationDays == 1
jwtExpirationMinutes == 15

getRefreshTokenTTL == refreshTokenExpirationDays * 24 * 60 * 60 * 1000

\* config.redirectUris: the allow-list of spoke-app redirect URIs, as
\* parseRedirectUris splits REDIRECT_URIS at its commas: the value ends with a
\* comma, and the empty entry after it is kept
redirectUris == << <<"https://app1/cb">>, <<"https://app2/cb", "?", "v=2">>, <<>> >>

\* getCiamBaseUrl() is set: the tenant is configured for native sign-up
ciamConfigured == TRUE

\* config.jwtIssuer, config.jwtAudience
jwtIssuer == "central-auth"
jwtAudience == <<"spoke-apps">>

(***************************************************************************)
(* Strings.                                                                *)
(***************************************************************************)
URIError == <<"URIError">>

HexDigits == {"3", "F"}

\* decodeURIComponent over the alphabet of the model: %3F is '?', %33 is '3',
\* %F3 and %FF start no UTF-8 sequence that these digits can complete, and a
\* '%' without two hex digits is malformed.
RECURSIVE decodeURIComponent(_)
decodeURIComponent(s) ==
  IF s = <<>> THEN <<>>
  ELSE IF Head(s) # "%"
    THEN LET r == decodeURIComponent(Tail(s))
         IN IF r = URIError THEN URIError ELSE <<Head(s)>> \o r
  ELSE IF Len(s) < 3 \/ s[2] \notin HexDigits \/ s[3] \notin HexDigits
    THEN URIError
  ELSE IF s[2] = "F" THEN URIError
  ELSE LET r == decodeURIComponent(SubSeq(s, 4, Len(s)))
           c == IF s[3] = "F" THEN "?" ELSE "3"
       IN IF r = URIError THEN URIError ELSE <<c>> \o r

\* s.split('?')[0]
RECURSIVE SplitBase(_)
SplitBase(s) ==
  IF s = <<>> \/ Head(s) = "?" THEN <<>>
  ELSE <<Head(s)>> \o SplitBase(Tail(s))

\* config.redirectUris.some(configuredUri => redirectUriBase === configuredUri.split('?')[0])
isValidRedirectUri(redirectUriBase) ==
  \E i \in 1..Len(redirectUris) : redirectUriBase = SplitBase(redirectUris[i])

\* req.query.provider when the parameter is given more than once: Express
\* parses it to an array, named here by its elements
QueryArrays == {"[google, microsoft]"}

\* typeof value === 'string'
IsString(value) == value \notin QueryArrays

\* (provider || 'microsoft').toLowerCase().trim()
LowerTrim(p) ==
  CASE p = "" -> "microsoft"
    [] p = " Google " -> "google"
    [] OTHER -> p

\* an email taken as it was sent
LowerTrimEmailSkipped(e) == e

\* email.toLowerCase().trim()
LowerTrimEmail(e) == IF e = " One@Example.com " THEN "one@example.com" ELSE e

\* email.trim() is not empty
HasText(e) == e # "" /\ e # "  "

\* emailTrimmed.includes('@') && emailTrimmed.split('@').length === 2
IsEmailFormat(e) == e \notin {"not-an-email", "a@b@c"}

(***************************************************************************)
(* db/get-claims-by-email.ts: the rows of the persona query                *)
(***************************************************************************)
PersonaRow(app_name, persona_code, persona_name) ==
  [person_id |-> "person-1", user_status |-> "Active", app_name |-> app_name,
   persona_code |-> persona_code, persona_name |-> persona_name]

\* the person as provisioned: one persona in one app
MemberRows == <<PersonaRow("portal", "P1002", "Member")>>

\* the person after the assignments were changed
AdminRows ==
  <<PersonaRow("portal", "P1001", "Admin"), PersonaRow("pulse", "P1002", "Member"),
    PersonaRow("portal", "P1003", "Auditor")>>

PersonaRowStates == {MemberRows, AdminRows}

(***************************************************************************)
(* JavaScript Map.                                                         *)
(***************************************************************************)
MapHas(m, k) == k \in DOMAIN m
MapSet(m, k, v) == [x \in DOMAIN m \cup {k} |-> IF x = k THEN v ELSE m[x]]
MapDelete(m, k) == [x \in DOMAIN m \ {k} |-> m[x]]
EmptyMap == [x \in {} |-> 0]
Count(f, k) == IF k \in DOMAIN f THEN f[k] ELSE 0

Null == [null |-> TRUE]
Undefined == [undefined |-> TRUE]

VARIABLES
  now,            \* Date.now()
  googleService,  \* whether the Google OAuth service was instantiated at start-up
  personaRows,    \* the rows the persona query of the database returns for the user
  sessionStore,   \* session.store.ts: state -> SessionData
  exchangeStore,  \* token.store.ts: exchange code -> ExchangeCodeData
  refreshStore,   \* token.store.ts: refresh token -> RefreshTokenData
  signupStore,    \* token.store.ts: email -> sign-up continuation token
  postOtpStore,   \* token.store.ts: email -> post-OTP continuation token
  resetStartStore,   \* token.store.ts: email -> password-reset start token
  resetPostOtpStore, \* token.store.ts: email -> password-reset post-OTP token
  inflight,       \* callbacks suspended at the identity-provider exchange
  signupInflight, \* native sign-up and password-reset requests suspended at the
                  \* identity provider
  sessionLog,     \* history: every session ever stored, by state
  codeLog,        \* history: every exchange code ever created
  refreshLog,     \* history: every refresh token ever created
  signupLog,      \* history: every sign-up continuation token ever stored
  served,         \* history: how many requests each one-time key has been served to
  idpCalls,       \* history: the identity-provider steps invoked by the last request
                  \* whose calls were recorded
  stageLog,       \* history: per stage store and email, the tokens stored and served
  resp            \* the response sent by the last step

vars == <<now, idpCalls, googleService, personaRows, sessionStore, exchangeStore,
          refreshStore,
          signupStore, postOtpStore, resetStartStore, resetPostOtpStore,
          inflight, signupInflight, sessionLog, codeLog, refreshLog, signupLog,
          served, stageLog, resp>>

Init ==
  /\ now = 0
  /\ googleService \in BOOLEAN
  /\ personaRows = MemberRows
  /\ sessionStore = EmptyMap
  /\ exchangeStore = EmptyMap
  /\ refreshStore = EmptyMap
  /\ signupStore = EmptyMap
  /\ postOtpStore = EmptyMap
  /\ resetStartStore = EmptyMap
  /\ resetPostOtpStore = EmptyMap
  /\ inflight = EmptyMap
  /\ signupInflight = EmptyMap
  /\ idpCalls = <<>>
  /\ sessionLog = EmptyMap
  /\ codeLog = EmptyMap
  /\ refreshLog = EmptyMap
  /\ signupLog = EmptyMap
  /\ served = [session |-> EmptyMap, exchange |-> EmptyMap, refresh |-> EmptyMap,
               signup |-> EmptyMap]
  /\ stageLog = [postOtp |-> EmptyMap, resetStart |-> EmptyMap,
                 resetPostOtp |-> EmptyMap]
  /\ resp = [op |-> "start"]

(***************************************************************************)
(* The clock.  It is read at multiples of a TTL: an entry is seen at the   *)
(* age of its TTL exactly (still valid) and one step later (expired).      *)
(***************************************************************************)
Tick(step) ==
  /\ now + step <= MaxTicks * step
  /\ now' = now + step
  /\ resp' = [op |-> "tick"]
  /\ UNCHANGED <<idpCalls, googleService, personaRows, sessionStore, exchangeStore,
                 refreshStore,
                 signupStore, postOtpStore, resetStartStore,
                 resetPostOtpStore, stageLog,
                 inflight, signupInflight,
                 sessionLog, codeLog, refreshLog, signupLog, served>>

(***************************************************************************)
(* Request inputs.                                                         *)
(***************************************************************************)
ClientIdInputs == {"", "app1", "app2"}
LoginRequest(client_id, redirect_uri, provider) ==
  [client_id |-> client_id, redirect_uri |-> redirect_uri, provider |-> provider]
\* req.query of GET /auth/login, as Express hands it to the handler
LoginRequests ==
  { LoginRequest("", <<"https://app1/cb">>, ""),
    LoginRequest("app1", <<>>, ""),
    LoginRequest("app1", <<"https://app1/cb">>, ""),
    LoginRequest("app1", <<"https://app1/cb", "?", "x=1">>, "okta"),
    LoginRequest("app1", <<"https://app1/cb", "%", "3", "F", "x=1">>, "microsoft"),
    LoginRequest("app2", <<"https://app2/cb">>, "google"),
    LoginRequest("app2", <<"https://app2/cb">>, " Google "),
    LoginRequest("app2", <<"https://app2/cb">>, "[google, microsoft]"),
    LoginRequest("app1", <<"https://evil/cb">>, ""),
    LoginRequest("app1", <<"https://app1/cb", "x">>, ""),
    LoginRequest("app1", <<"https://app1/cb", "%">>, "") }
\* the logins of a spoke app that is configured correctly
SpokeLoginRequests ==
  { LoginRequest("app1", <<"https://app1/cb">>, "") }
CallbackRequest(error, code, state, provider, cookie) ==
  [error |-> error, code |-> code, state |-> state, provider |-> provider,
   cookie |-> cookie]
\* req.query and the auth_state cookie of GET /auth/callback
CallbackRequests ==
  UNION { { CallbackRequest("", "authcode", s, "", s),
            CallbackRequest("", "authcode", s, "google", s),
            CallbackRequest("", "authcode", s, "microsoft", s),
            CallbackRequest("", "authcode", s, "", 0),
            CallbackRequest("", "authcode", s, "", s + 1),
            CallbackRequest("access_denied", "", s, "", s),
            CallbackRequest("", "", s, "", s),
            CallbackRequest("", "authcode", 0, "", s) } : s \in 1..MaxSessions }
\* the callbacks of a browser that returns from the identity provider
BrowserCallbackRequests ==
  { CallbackRequest("", "authcode", s, "", s) : s \in 1..MaxIssued }
CodeInputs == 0..MaxIssued             \* 0: exchange_code is absent
RefreshInputs == 0..MaxRefresh         \* 0: refresh_token is absent
\* req.body.email of the sign-up endpoints
EmailInputs == {"", "not-an-email", "one@example.com", " One@Example.com "}
\* how far the identity provider lets a sign-up request get
StartOutcomes == {"ok", "exists", "throw"}
VerifyOutcomes ==
  {"ok", "credential_required", "credential_required_no_token", "oob",
   "no_token", "throw"}
CompleteOutcomes ==
  {"ok", "oob", "weak", "token", "attributes_required",
   "attributes_required_no_token"}
OtpInputs == {"", "123456"}            \* req.body.code
CompleteRequest(email, code, password, displayName, role) ==
  [email |-> email, code |-> code, password |-> password,
   displayName |-> displayName, role |-> role]
\* req.body of POST /auth/signup/complete
CompleteRequests ==
  { CompleteRequest("one@example.com", "123456", "pw", "One", "Member"),
    CompleteRequest(" One@Example.com ", "123456", "pw", "One", "Member"),
    CompleteRequest("", "123456", "pw", "One", "Member"),
    CompleteRequest("one@example.com", "", "pw", "One", "Member"),
    CompleteRequest("one@example.com", "123456", "", "One", "Member"),
    CompleteRequest("one@example.com", "123456", "pw", "  ", "Member"),
    CompleteRequest("one@example.com", "123456", "pw", "One", "") }
IdpUsers == {"oid-1"}                  \* object ids the identity providers know

(***************************************************************************)
(* session.store.ts                                                        *)
(***************************************************************************)
\* setSession(state, data)
setSession(store, state, data, t) ==
  MapSet(store, state, [codeVerifier |-> data.codeVerifier, nonce |-> data.nonce,
                        redirectUri |-> data.redirectUri, provider |-> data.provider,
                        clientId |-> data.clientId, createdAt |-> t])

\* a read that does not look at the age of the entry
getSessionNoExpiry(store, state, t) ==
  IF ~MapHas(store, state) THEN [store |-> store, session |-> Null]
  ELSE [store |-> store, session |-> store[state]]

\* getSession(state): the store it leaves and the session it returns
getSession(store, state, t) ==
  IF ~MapHas(store, state) THEN [store |-> store, session |-> Null]
  ELSE IF t - store[state].createdAt > SESSION_EXPIRATION_MS
    THEN [store |-> MapDelete(store, state), session |-> Null]
  ELSE [store |-> store, session |-> store[state]]

\* a consume that leaves the session in the map
deleteSessionSkipped(store, state) == store

\* deleteSession(state)
deleteSession(store, state) == MapDelete(store, state)

\* cleanupExpiredSessions()
cleanupExpiredSessionsOf(store, t) ==
  [s \in {x \in DOMAIN store : ~(t - store[x].createdAt > SESSION_EXPIRATION_MS)}
     |-> store[s]]

(***************************************************************************)
(* GET /auth/login                                                         *)
(***************************************************************************)
\* login.controller.ts: the provider recorded in the session; toLowerCase is
\* not a function of an array, and the call throws TypeError
loginProvider(provider) ==
  LET p1 == LowerTrim(provider)
      p2 == IF p1 # "microsoft" /\ p1 # "google" THEN "microsoft" ELSE p1
  IN IF p2 = "google" /\ ~googleService THEN "microsoft" ELSE p2

\* the response of login: status, error, and the state put in the auth_state
\* cookie (0: no cookie is set)
LoginResponse(status, error, state) ==
  [op |-> "login", status |-> status, error |-> error, setCookie |-> state]

\* login: a throw before setSession is caught and answered with 500
login(client_id, redirect_uri, provider, authUrlOk, maxSessions) ==
  LET normalizedRedirectUri == decodeURIComponent(redirect_uri)
      redirectUriBase == SplitBase(normalizedRedirectUri)
      state == Cardinality(DOMAIN sessionLog) + 1
      authProvider == loginProvider(provider)
      data == [codeVerifier |-> state, nonce |-> state,
               redirectUri |-> normalizedRedirectUri,
               provider |-> authProvider, clientId |-> client_id]
  IN
  /\ UNCHANGED <<now, googleService, personaRows, exchangeStore, refreshStore,
                 signupStore,
                 postOtpStore, resetStartStore, resetPostOtpStore, stageLog,
                 inflight, signupInflight, codeLog, refreshLog,
                 signupLog, served>>
  /\ IF client_id = ""
       THEN /\ resp' = LoginResponse(400, "client_id is required", 0)
            /\ UNCHANGED <<sessionStore, sessionLog>>
     ELSE IF redirect_uri = <<>>
       THEN /\ resp' = LoginResponse(400, "redirect_uri is required", 0)
            /\ UNCHANGED <<sessionStore, sessionLog>>
     ELSE IF normalizedRedirectUri = URIError
       THEN /\ resp' = LoginResponse(500, "Failed to initiate login", 0)
            /\ UNCHANGED <<sessionStore, sessionLog>>
     ELSE IF ~isValidRedirectUri(redirectUriBase)
       THEN /\ resp' = LoginResponse(400, "Invalid redirect_uri", 0)
            /\ UNCHANGED <<sessionStore, sessionLog>>
     ELSE IF ~IsString(provider)
       THEN /\ resp' = LoginResponse(500, "Failed to initiate login", 0)
            /\ UNCHANGED <<sessionStore, sessionLog>>
     ELSE /\ state <= maxSessions
          /\ sessionStore' = setSession(sessionStore, state, data, now)
          /\ sessionLog' = setSession(sessionLog, state, data, now)
          /\ resp' = IF authProvider = "microsoft" /\ ~authUrlOk
                       THEN LoginResponse(500, "Failed to initiate login", state)
                       ELSE LoginResponse(302, "", state)

Login(Requests, maxSessions) ==
  /\ \E req \in Requests, authUrlOk \in BOOLEAN :
       login(req.client_id, req.redirect_uri, req.provider, authUrlOk, maxSessions)
  /\ UNCHANGED idpCalls

(***************************************************************************)
(* claims.helper.ts and jwt.service.ts                                     *)
(***************************************************************************)
\* what the identity provider reports for an object id
UserInfoOf(objectId) ==
  [objectId |-> objectId,
   email |-> IF objectId = "oid-1" THEN "one@example.com" ELSE "two@example.com"]

\* what getClaimsByEmail returns for a provisioned person
DbClaimsOf(objectId) ==
  [personId |-> IF objectId = "oid-1" THEN "person-1" ELSE "person-2",
   status |-> "Active",
   personUuid |-> IF objectId = "oid-1" THEN "person-1" ELSE "person-2",
   apps |-> [portal |-> [uid |-> "P1002", roles |-> <<"Member">>]],
   aud |-> <<"portal">>]

\* [...new Set(rows.map((r) => r.app_name))]: the app names in the order of
\* their first row
RECURSIVE AppNamesOf(_)
AppNamesOf(rows) ==
  IF rows = <<>> THEN <<>>
  ELSE LET front == AppNamesOf(SubSeq(rows, 1, Len(rows) - 1))
           last == rows[Len(rows)].app_name
       IN IF \E i \in 1..Len(front) : front[i] = last
            THEN front ELSE Append(front, last)

\* getClaimsByEmail(primaryEmail), rows being what the query returns
getClaimsByEmail(rows) ==
  IF Len(rows) = 0 THEN Null
  ELSE LET first == rows[1]
           aud == AppNamesOf(rows)
           forApp(appName) == SelectSeq(rows, LAMBDA r : r.app_name = appName)
           apps == [appName \in {aud[i] : i \in 1..Len(aud)} |->
                      [uid |-> forApp(appName)[1].persona_code,
                       roles |-> [i \in 1..Len(forApp(appName)) |->
                                    forApp(appName)[i].persona_name]]]
       IN [personId |-> first.person_id, status |-> first.user_status,
           personUuid |-> first.person_id, apps |-> apps, aud |-> aud]

DefaultApps ==
  [pulse |-> [uid |-> "PULSE_99", roles |-> <<"PRODUCER">>],
   key |-> [uid |-> "KEY_UUID_1", roles |-> <<"ARTIST">>]]

\* a value on which ?. gives undefined and ?? takes its right-hand side
Nullish(value) == value \in {Null, Undefined}

\* a claims helper without the mock application claims
buildUserClaimsNoDefaults(idpUser, apiClaims) ==
  LET entraUuid == idpUser.objectId
      personId == IF Nullish(apiClaims) THEN entraUuid ELSE apiClaims.personId
      status == IF Nullish(apiClaims) THEN "Active" ELSE apiClaims.status
      personUuid == IF Nullish(apiClaims)
                      THEN "8b3d3f9d-03d4-4d0a-8e15-482b35c3850f"
                      ELSE apiClaims.personUuid
      identity == [email |-> idpUser.email, status |-> status,
                   entra_uuid |-> entraUuid, Person_uuid |-> personUuid]
      apps == IF Nullish(apiClaims) THEN EmptyMap ELSE apiClaims.apps
      aud == IF ~Nullish(apiClaims) /\ Len(apiClaims.aud) > 0
               THEN apiClaims.aud ELSE <<>>
  IN [sub |-> personId, identity |-> identity, apps |-> apps, aud |-> aud]

\* buildUserClaims(idpUser, _apiClaims)
buildUserClaims(idpUser, apiClaims) ==
  LET entraUuid == idpUser.objectId
      personId == IF Nullish(apiClaims) THEN entraUuid ELSE apiClaims.personId
      status == IF Nullish(apiClaims) THEN "Active" ELSE apiClaims.status
      personUuid == IF Nullish(apiClaims)
                      THEN "8b3d3f9d-03d4-4d0a-8e15-482b35c3850f"
                      ELSE apiClaims.personUuid
      identity == [email |-> idpUser.email, status |-> status,
                   entra_uuid |-> entraUuid, Person_uuid |-> personUuid]
      apps == IF Nullish(apiClaims) THEN DefaultApps ELSE apiClaims.apps
      aud == IF ~Nullish(apiClaims) /\ Len(apiClaims.aud) > 0
               THEN apiClaims.aud ELSE <<>>
  IN [sub |-> personId, identity |-> identity, apps |-> apps, aud |-> aud]

\* JWTService.sign(payload): the claims of the signed token
sign(payload, t) ==
  LET iat == t \div 1000
  IN [kind |-> "jwt", sub |-> payload.sub, identity |-> payload.identity,
      apps |-> payload.apps, iat |-> iat, exp |-> iat + jwtExpirationMinutes * 60,
      iss |-> jwtIssuer, aud |-> jwtAudience]

(***************************************************************************)
(* token.store.ts                                                          *)
(***************************************************************************)
\* a store with one slot: every code maps to the tokens stored last
createExchangeCodeOneSlot(store, code, accessToken, clientId, expiresInSeconds, refreshToken, t) ==
  [k \in DOMAIN store \cup {code} |->
     [accessToken |-> accessToken, refreshToken |-> refreshToken,
      expiresIn |-> expiresInSeconds,
      clientId |-> IF k = code THEN clientId ELSE store[k].clientId,
      createdAt |-> IF k = code THEN t ELSE store[k].createdAt]]

\* createExchangeCode(accessToken, clientId, expiresInSeconds, refreshToken)
createExchangeCode(store, code, accessToken, clientId, expiresInSeconds, refreshToken, t) ==
  MapSet(store, code, [accessToken |-> accessToken, refreshToken |-> refreshToken,
                       expiresIn |-> expiresInSeconds, clientId |-> clientId,
                       createdAt |-> t])

\* a consume that leaves the code in the map
exchangeStoreKept(store, code) == store

\* exchangeStore.delete(code) in consumeExchangeCode
exchangeStoreAfterConsume(store, code) == MapDelete(store, code)

\* a consume that does not compare the client identifier
consumeExchangeCodeAnyClient(store, code, clientId, t) ==
  [store |-> exchangeStoreAfterConsume(store, code),
   value |-> IF ~MapHas(store, code) THEN Null
             ELSE IF t - store[code].createdAt > EXCHANGE_CODE_TTL_MS THEN Null
             ELSE [accessToken |-> store[code].accessToken,
                   refreshToken |-> store[code].refreshToken,
                   expiresIn |-> store[code].expiresIn]]

\* a consume that deletes the code only once it has validated it
consumeExchangeCodeValidatedFirst(store, code, clientId, t) ==
  LET valid == /\ MapHas(store, code)
               /\ ~(t - store[code].createdAt > EXCHANGE_CODE_TTL_MS)
               /\ store[code].clientId = clientId
  IN [store |-> IF valid THEN MapDelete(store, code) ELSE store,
      value |-> IF ~valid THEN Null
                ELSE [accessToken |-> store[code].accessToken,
                      refreshToken |-> store[code].refreshToken,
                      expiresIn |-> store[code].expiresIn]]

\* consumeExchangeCode(code, clientId): the store it leaves and what it returns
consumeExchangeCode(store, code, clientId, t) ==
  [store |-> exchangeStoreAfterConsume(store, code),
   value |-> IF ~MapHas(store, code) THEN Null
             ELSE IF t - store[code].createdAt > EXCHANGE_CODE_TTL_MS THEN Null
             ELSE IF store[code].clientId # clientId THEN Null
             ELSE [accessToken |-> store[code].accessToken,
                   refreshToken |-> store[code].refreshToken,
                   expiresIn |-> store[code].expiresIn]]

\* a refresh token whose creation time does not move with the clock
createRefreshTokenAtOrigin(store, token, payload, t) ==
  MapSet(store, token, [payload |-> payload, createdAt |-> 0])

\* createRefreshToken(payload)
createRefreshToken(store, token, payload, t) ==
  MapSet(store, token, [payload |-> payload, createdAt |-> t])

\* a consume that never deletes the token it read
consumeRefreshTokenUnrotated(store, token, rotate, t) ==
  [store |-> store,
   value |-> IF ~MapHas(store, token) THEN Null
             ELSE IF t - store[token].createdAt > getRefreshTokenTTL THEN Null
             ELSE store[token].payload]

\* a consume that hands out the stored claim set with the default
\* application claims in the place of the stored ones
consumeRefreshTokenDefaultApps(store, token, rotate, t) ==
  [store |-> IF rotate THEN MapDelete(store, token) ELSE store,
   value |-> IF ~MapHas(store, token) THEN Null
             ELSE IF t - store[token].createdAt > getRefreshTokenTTL THEN Null
             ELSE [store[token].payload EXCEPT !.apps = DefaultApps]]

\* consumeRefreshToken(token, rotate): the store it leaves and what it returns
consumeRefreshToken(store, token, rotate, t) ==
  [store |-> IF rotate THEN MapDelete(store, token) ELSE store,
   value |-> IF ~MapHas(store, token) THEN Null
             ELSE IF t - store[token].createdAt > getRefreshTokenTTL THEN Null
             ELSE store[token].payload]

\* a sweep that removes nothing
cleanupExpiredOfKept(store, ttl, t) == store

\* a sweep that removes an entry at the age of its TTL already
cleanupExpiredOfAtTtl(store, ttl, t) ==
  [k \in {x \in DOMAIN store : ~(t - store[x].createdAt >= ttl)} |-> store[k]]

\* cleanupExpiredTokens(): one store, with its TTL
cleanupExpiredOf(store, ttl, t) ==
  [k \in {x \in DOMAIN store : ~(t - store[x].createdAt > ttl)} |-> store[k]]

\* storeSignupContinuationToken(email, continuationToken)
storeSignupContinuationToken(store, email, continuationToken, t) ==
  MapSet(store, LowerTrimEmail(email),
         [continuationToken |-> continuationToken, createdAt |-> t])

\* a read that leaves the token in the map
getSignupContinuationTokenKept(store, email, t) ==
  LET key == LowerTrimEmail(email)
  IN [store |-> store,
      value |-> IF ~MapHas(store, key) THEN Null
                ELSE IF t - store[key].createdAt > SIGNUP_TOKEN_TTL_MS THEN Null
                ELSE [continuationToken |-> store[key].continuationToken]]

\* getSignupContinuationToken(email): the store it leaves and what it returns
getSignupContinuationToken(store, email, t) ==
  LET key == LowerTrimEmail(email)
  IN [store |-> MapDelete(store, key),
      value |-> IF ~MapHas(store, key) THEN Null
                ELSE IF t - store[key].createdAt > SIGNUP_TOKEN_TTL_MS THEN Null
                ELSE [continuationToken |-> store[key].continuationToken]]

\* storePostOtpContinuationToken(email, continuationToken)
storePostOtpContinuationToken(store, email, continuationToken, t) ==
  MapSet(store, LowerTrimEmail(email),
         [continuationToken |-> continuationToken, createdAt |-> t])

\* a read of the post-OTP store that leaves the token in the map
getPostOtpContinuationTokenKept(store, email, t) ==
  LET key == LowerTrimEmail(email)
  IN [store |-> store,
      value |-> IF ~MapHas(store, key) THEN Null
                ELSE IF t - store[key].createdAt > SIGNUP_TOKEN_TTL_MS THEN Null
                ELSE [continuationToken |-> store[key].continuationToken]]

\* getPostOtpContinuationToken(email): consumed on read, 10 minutes
getPostOtpContinuationToken(store, email, t) ==
  LET key == LowerTrimEmail(email)
  IN [store |-> MapDelete(store, key),
      value |-> IF ~MapHas(store, key) THEN Null
                ELSE IF t - store[key].createdAt > SIGNUP_TOKEN_TTL_MS THEN Null
                ELSE [continuationToken |-> store[key].continuationToken]]

\* storeResetPasswordStartToken(email, continuationToken)
storeResetPasswordStartToken(store, email, continuationToken, t) ==
  MapSet(store, LowerTrimEmail(email),
         [continuationToken |-> continuationToken, createdAt |-> t])

\* getResetPasswordStartToken(email): consumed on read, 10 minutes
getResetPasswordStartToken(store, email, t) ==
  LET key == LowerTrimEmail(email)
  IN [store |-> MapDelete(store, key),
      value |-> IF ~MapHas(store, key) THEN Null
                ELSE IF t - store[key].createdAt > SIGNUP_TOKEN_TTL_MS THEN Null
                ELSE [continuationToken |-> store[key].continuationToken]]

\* storeResetPasswordPostOtpToken(email, continuationToken)
storeResetPasswordPostOtpToken(store, email, continuationToken, t) ==
  MapSet(store, LowerTrimEmail(email),
         [continuationToken |-> continuationToken, createdAt |-> t])

\* getResetPasswordPostOtpToken(email): consumed on read, 10 minutes
getResetPasswordPostOtpToken(store, email, t) ==
  LET key == LowerTrimEmail(email)
  IN [store |-> MapDelete(store, key),
      value |-> IF ~MapHas(store, key) THEN Null
                ELSE IF t - store[key].createdAt > SIGNUP_TOKEN_TTL_MS THEN Null
                ELSE [continuationToken |-> store[key].continuationToken]]

(***************************************************************************)
(* GET /auth/callback                                                      *)
(***************************************************************************)
\* the provider taken from the request when it names one
callbackProviderFromQuery(sessionData, q_provider) ==
  IF q_provider # "" THEN q_provider
  ELSE IF sessionData.provider = "" THEN "microsoft" ELSE sessionData.provider

\* callback: (sessionData.provider || 'microsoft').toLowerCase()
callbackProvider(sessionData, q_provider) ==
  IF sessionData.provider = "" THEN "microsoft" ELSE sessionData.provider

\* callback: the call it makes to the identity provider's token endpoint
idpExchange(authProvider, code, sessionData) ==
  IF authProvider = "google"
    THEN [provider |-> "google", code |-> code, codeVerifier |-> 0]
    ELSE [provider |-> "microsoft", code |-> code,
          codeVerifier |-> sessionData.codeVerifier]

\* a redirect that also carries the signed token
callbackRedirectWithToken(sessionData, state, exchangeCode, accessToken) ==
  [uri |-> sessionData.redirectUri,
   params |-> [code |-> [kind |-> "exchange_code", id |-> exchangeCode],
               state |-> [kind |-> "state", id |-> state],
               token |-> accessToken]]

\* callback: the URL of the redirect to the spoke app
callbackRedirect(sessionData, state, exchangeCode, accessToken) ==
  [uri |-> sessionData.redirectUri,
   params |-> [code |-> [kind |-> "exchange_code", id |-> exchangeCode],
               state |-> [kind |-> "state", id |-> state]]]

\* new URL(input), without a base: a TypeError unless the input starts with
\* a scheme
newURLThrows(input) ==
  \/ input = <<>>
  \/ Head(input) \notin {"https://app1/cb", "https://app2/cb", "https://evil/cb"}

\* the response of callback, with the state parameter once the handler has
\* compared it (0 before) and hit: getSession found an entry for it in the map
CallbackResponse(status, error, state, hit) ==
  [op |-> "callback", status |-> status, error |-> error, state |-> state,
   hit |-> hit]

\* a comparison that lets a request without the cookie pass
stateMismatchIfCookie(cookieState, q_state) ==
  cookieState # 0 /\ cookieState # q_state

\* a callback that does not compare the cookie with the state
stateMismatchSkipped(cookieState, q_state) == FALSE

\* callback: cookieState !== state (0: the cookie is absent)
stateMismatch(cookieState, q_state) == cookieState # q_state

\* callback up to its first await
callbackBegin(q_error, q_code, q_state, q_provider, cookieState) ==
  LET got == getSession(sessionStore, q_state, now)
      sessionData == got.session
      authProvider == callbackProvider(sessionData, q_provider)
      hit == MapHas(sessionStore, q_state)
      r == CHOOSE n \in 1..(Cardinality(DOMAIN inflight) + 1) : n \notin DOMAIN inflight
  IN
  /\ UNCHANGED <<now, googleService, personaRows, exchangeStore, refreshStore,
                 signupStore,
                 postOtpStore, resetStartStore, resetPostOtpStore, stageLog,
                 signupInflight, sessionLog, codeLog, refreshLog,
                 signupLog>>
  /\ IF q_error # ""
       THEN /\ resp' = CallbackResponse(400, "Authentication failed", 0, FALSE)
            /\ UNCHANGED <<sessionStore, inflight, served>>
     ELSE IF q_code = ""
       THEN /\ resp' = CallbackResponse(400, "Authorization code is required", 0, FALSE)
            /\ UNCHANGED <<sessionStore, inflight, served>>
     ELSE IF q_state = 0
       THEN /\ resp' = CallbackResponse(400, "State parameter is required", 0, FALSE)
            /\ UNCHANGED <<sessionStore, inflight, served>>
     ELSE IF stateMismatch(cookieState, q_state)
       THEN /\ resp' = CallbackResponse(400, "Invalid state parameter", q_state, FALSE)
            /\ UNCHANGED <<sessionStore, inflight, served>>
     ELSE IF sessionData = Null
       THEN /\ resp' = CallbackResponse(400, "Session expired or invalid", q_state, hit)
            /\ sessionStore' = got.store
            /\ UNCHANGED <<inflight, served>>
     ELSE /\ sessionStore' = deleteSession(got.store, q_state)
          /\ served' = [served EXCEPT !.session =
                          MapSet(@, q_state, Count(@, q_state) + 1)]
          /\ IF authProvider = "google" /\ ~googleService
               THEN /\ resp' = CallbackResponse(500, "Authentication callback failed",
                                                q_state, hit)
                    /\ UNCHANGED inflight
               ELSE /\ inflight' = MapSet(inflight, r,
                          [state |-> q_state, sessionData |-> sessionData,
                           idp |-> idpExchange(authProvider, q_code, sessionData)])
                    /\ resp' = [op |-> "callback_await", state |-> q_state,
                                provider |-> q_provider]

CallbackBegin(Requests) ==
  /\ \E req \in Requests :
       callbackBegin(req.error, req.code, req.state, req.provider, req.cookie)
  /\ UNCHANGED idpCalls

\* callback from the identity provider's answer to the response
callbackFinish(r, tokenOk, userInfoOk, objectId, apiClaims) ==
  LET c == inflight[r]
      sessionData == c.sessionData
      jwtPayload == buildUserClaims(UserInfoOf(objectId), apiClaims)
      accessToken == sign(jwtPayload, now)
      expiresInSeconds == jwtExpirationMinutes * 60
      refreshToken == Cardinality(DOMAIN refreshLog) + 1
      exchangeCode == Cardinality(DOMAIN codeLog) + 1
  IN
  /\ inflight' = MapDelete(inflight, r)
  /\ UNCHANGED <<now, googleService, personaRows, sessionStore, signupStore,
                 postOtpStore, resetStartStore, resetPostOtpStore, stageLog,
                 signupInflight, sessionLog, signupLog, served>>
  /\ IF ~tokenOk \/ (c.idp.provider = "google" /\ ~userInfoOk)
       THEN /\ resp' = CallbackResponse(500, "Authentication callback failed",
                                        c.state, TRUE)
            /\ UNCHANGED <<exchangeStore, refreshStore, codeLog, refreshLog>>
       ELSE /\ refreshToken <= MaxRefresh
            /\ refreshStore' = createRefreshToken(refreshStore, refreshToken, jwtPayload, now)
            /\ refreshLog' = createRefreshToken(refreshLog, refreshToken, jwtPayload, now)
            /\ exchangeStore' = createExchangeCode(exchangeStore, exchangeCode, accessToken,
                                   sessionData.clientId, expiresInSeconds, refreshToken, now)
            /\ codeLog' = MapSet(codeLog, exchangeCode,
                                 [accessToken |-> accessToken, refreshToken |-> refreshToken,
                                  state |-> c.state, createdAt |-> now])
            /\ resp' = IF newURLThrows(sessionData.redirectUri)
                         THEN CallbackResponse(500, "Authentication callback failed",
                                               c.state, TRUE)
                         ELSE [op |-> "callback", status |-> 302, error |-> "",
                               state |-> c.state, hit |-> TRUE,
                               location |-> callbackRedirect(sessionData, c.state,
                                                             exchangeCode, accessToken)]

\* what the identity provider and the claims database answer to one callback
IdpAnswer(tokenOk, userInfoOk, objectId, apiClaims) ==
  [tokenOk |-> tokenOk, userInfoOk |-> userInfoOk, objectId |-> objectId,
   apiClaims |-> apiClaims]
IdpAnswers ==
  UNION { { IdpAnswer(FALSE, TRUE, o, Null), IdpAnswer(TRUE, FALSE, o, Null),
            IdpAnswer(TRUE, TRUE, o, Null), IdpAnswer(TRUE, TRUE, o, DbClaimsOf(o)) }
          : o \in IdpUsers }

CallbackFinish ==
  /\ \E r \in DOMAIN inflight, a \in IdpAnswers :
       callbackFinish(r, a.tokenOk, a.userInfoOk, a.objectId, a.apiClaims)
  /\ UNCHANGED idpCalls

(***************************************************************************)
(* POST /auth/token/exchange and POST /auth/token/refresh                  *)
(***************************************************************************)
\* the response of a token endpoint; hit: the store held an entry for the key
TokenResponse(op, status, error, key, hit, body) ==
  [op |-> op, status |-> status, error |-> error, key |-> key, hit |-> hit,
   body |-> body]

exchangeToken(exchange_code, client_id) ==
  LET result == consumeExchangeCode(exchangeStore, exchange_code, client_id, now)
      hit == MapHas(exchangeStore, exchange_code)
  IN
  /\ UNCHANGED <<now, googleService, personaRows, sessionStore, refreshStore,
                 signupStore,
                 postOtpStore, resetStartStore, resetPostOtpStore, stageLog,
                 inflight, signupInflight, sessionLog, codeLog,
                 refreshLog, signupLog>>
  /\ IF exchange_code = 0
       THEN /\ resp' = TokenResponse("exchange", 400, "exchange_code is required",
                                     exchange_code, hit, Null)
            /\ UNCHANGED <<exchangeStore, served>>
     ELSE IF client_id = ""
       THEN /\ resp' = TokenResponse("exchange", 400, "client_id is required",
                                     exchange_code, hit, Null)
            /\ UNCHANGED <<exchangeStore, served>>
     ELSE /\ exchangeStore' = result.store
          /\ IF result.value = Null
               THEN /\ resp' = TokenResponse("exchange", 400, "invalid_grant",
                                             exchange_code, hit, Null)
                    /\ UNCHANGED served
               ELSE /\ resp' = TokenResponse("exchange", 200, "", exchange_code, hit,
                          [access_token |-> result.value.accessToken,
                           token_type |-> "Bearer",
                           expires_in |-> result.value.expiresIn,
                           refresh_token |-> result.value.refreshToken])
                    /\ served' = [served EXCEPT !.exchange =
                          MapSet(@, exchange_code, Count(@, exchange_code) + 1)]

ExchangeToken ==
  /\ \E exchange_code \in CodeInputs, client_id \in ClientIdInputs :
       exchangeToken(exchange_code, client_id)
  /\ UNCHANGED idpCalls

refreshToken(refreshTokenValue) ==
  LET result == consumeRefreshToken(refreshStore, refreshTokenValue, TRUE, now)
      payload == result.value
      hit == MapHas(refreshStore, refreshTokenValue)
      newRefreshToken == Cardinality(DOMAIN refreshLog) + 1
  IN
  /\ UNCHANGED <<now, googleService, personaRows, sessionStore, exchangeStore,
                 signupStore,
                 postOtpStore, resetStartStore, resetPostOtpStore, stageLog,
                 inflight, signupInflight, sessionLog, codeLog,
                 signupLog>>
  /\ IF refreshTokenValue = 0
       THEN /\ resp' = TokenResponse("refresh", 400, "refresh_token is required",
                                     refreshTokenValue, hit, Null)
            /\ UNCHANGED <<refreshStore, refreshLog, served>>
     ELSE IF payload = Null
       THEN /\ resp' = TokenResponse("refresh", 400, "invalid_grant",
                                     refreshTokenValue, hit, Null)
            /\ refreshStore' = result.store
            /\ UNCHANGED <<refreshLog, served>>
     ELSE /\ newRefreshToken <= MaxRefresh
          /\ refreshStore' = createRefreshToken(result.store, newRefreshToken, payload, now)
          /\ refreshLog' = createRefreshToken(refreshLog, newRefreshToken, payload, now)
          /\ served' = [served EXCEPT !.refresh =
                MapSet(@, refreshTokenValue, Count(@, refreshTokenValue) + 1)]
          /\ resp' = TokenResponse("refresh", 200, "", refreshTokenValue, hit,
                [access_token |-> sign(payload, now), token_type |-> "Bearer",
                 expires_in |-> jwtExpirationMinutes * 60,
                 refresh_token |-> newRefreshToken])

RefreshToken ==
  /\ \E refreshTokenValue \in RefreshInputs : refreshToken(refreshTokenValue)
  /\ UNCHANGED idpCalls

(***************************************************************************)
(* POST /auth/signup/start, /auth/signup/verify-otp, /auth/signup/complete *)
(***************************************************************************)
SignupResponse(op, status, error) == [op |-> op, status |-> status, error |-> error]

\* the response to a request that read the sign-up store; hit: the store held
\* an entry for the email
SignupReadResponse(op, status, error, email, hit) ==
  [op |-> op, status |-> status, error |-> error, email |-> email, hit |-> hit]

\* the response to a request that went to the identity provider; idp: how far
\* the identity provider let the request get
SignupIdpResponse(op, status, error, outcome) ==
  [op |-> op, status |-> status, error |-> error, idp |-> outcome]

\* what the datastore answers to signupStart. prospect: getProspectByEmail;
\* created: createProspect; journey: createRegistrationJourneyByStepId;
\* latest: getLatestRegistrationJourneyByProspectId and getStepNameByStepId,
\* which catch their own errors; person: getClaimsByEmail
DatastoreReplies ==
  [prospect : {"row", "null", "throw"}, created : {"row", "null", "throw"},
   journey : {"row", "null", "throw"}, latest : {"row", "null"},
   person : {"row", "null", "throw"}]

\* the datastore is not configured: every operation returns null
DatastoreSilent ==
  [prospect |-> "null", created |-> "null", journey |-> "null", latest |-> "null",
   person |-> "null"]

\* the prospect id signupStart ends its first try block with: set once
\* getProspectByEmail or createProspect has returned a row, and kept when a
\* journey insert throws after that
prospectIdResolved(db) ==
  \/ db.prospect = "row"
  \/ db.prospect = "null" /\ db.created = "row"

isNewProspect(db) == db.prospect = "null" /\ db.created = "row"

\* the reply of signupStart after the token was stored: each datastore block
\* sits in a try of its own whose catch logs and continues. datastore: what
\* the datastore answered to this request
signupStartReplyUncaught(db) ==
  IF "throw" \in {db.prospect, db.person}
       \/ (db.prospect = "null" /\ db.created = "throw")
       \/ (prospectIdResolved(db) /\ db.journey = "throw")
    THEN [op |-> "signup_start", status |-> 500, error |-> "server_error",
          datastore |-> db]
    ELSE [op |-> "signup_start", status |-> 200, error |-> "", datastore |-> db,
          journey_status |-> IF prospectIdResolved(db) /\ db.latest = "row"
                               THEN "STEP" ELSE "OTP_SENT",
          prospect_id |-> isNewProspect(db),
          person_exists |-> db.person = "row"]

signupStartReply(db) ==
  [op |-> "signup_start", status |-> 200, error |-> "", datastore |-> db,
   journey_status |-> IF prospectIdResolved(db) /\ db.latest = "row"
                        THEN "STEP" ELSE "OTP_SENT",
   prospect_id |-> isNewProspect(db),
   person_exists |-> db.person = "row"]

\* signupStart: the identity provider is called before the token is stored and
\* the database after it; neither reads or writes the stores
signupStart(email, outcome, db, maxSignups) ==
  LET emailTrimmed == LowerTrimEmail(email)
      continuationToken == Cardinality(DOMAIN signupLog) + 1
  IN
  /\ UNCHANGED <<now, googleService, personaRows, sessionStore, exchangeStore,
                 refreshStore,
                 postOtpStore, resetStartStore, resetPostOtpStore, stageLog,
                 inflight, signupInflight, sessionLog, codeLog,
                 refreshLog, served>>
  /\ IF ~HasText(email)
       THEN /\ resp' = SignupResponse("signup_start", 400, "email is required")
            /\ UNCHANGED <<signupStore, signupLog>>
     ELSE IF ~IsEmailFormat(emailTrimmed)
       THEN /\ resp' = SignupResponse("signup_start", 400, "Invalid email format")
            /\ UNCHANGED <<signupStore, signupLog>>
     ELSE IF ~ciamConfigured
       THEN /\ resp' = SignupResponse("signup_start", 503, "native_auth_unavailable")
            /\ UNCHANGED <<signupStore, signupLog>>
     ELSE IF outcome # "ok"
       THEN /\ resp' = CASE outcome = "exists" ->
                              SignupResponse("signup_start", 400, "user_already_exists")
                         [] outcome = "redirect" ->
                              SignupResponse("signup_start", 400, "redirect_required")
                         [] outcome = "no_token" ->
                              SignupResponse("signup_start", 500, "signup_failed")
                         [] outcome = "throw" ->
                              SignupResponse("signup_start", 500, "server_error")
                         [] OTHER ->
                              SignupResponse("signup_start", 400, "signup_failed")
            /\ UNCHANGED <<signupStore, signupLog>>
     ELSE /\ continuationToken <= maxSignups
          /\ signupStore' = storeSignupContinuationToken(signupStore, emailTrimmed,
                                                         continuationToken, now)
          /\ signupLog' = MapSet(signupLog, continuationToken,
                                 [email |-> emailTrimmed, createdAt |-> now])
          /\ resp' = signupStartReply(db)

SignupStart ==
  /\ \E email \in EmailInputs, outcome \in StartOutcomes :
       signupStart(email, outcome, DatastoreSilent, MaxSignups)
  /\ UNCHANGED idpCalls

\* signupVerifyOtp up to the call to the identity provider
signupVerifyOtpBegin(email, code) ==
  LET emailTrimmed == LowerTrimEmail(email)
      got == getSignupContinuationToken(signupStore, emailTrimmed, now)
      hit == MapHas(signupStore, emailTrimmed)
      r == CHOOSE n \in 1..(Cardinality(DOMAIN signupInflight) + 1) :
             n \notin DOMAIN signupInflight
  IN
  /\ UNCHANGED <<now, googleService, personaRows, sessionStore, exchangeStore,
                 refreshStore,
                 postOtpStore, resetStartStore, resetPostOtpStore, stageLog,
                 inflight, sessionLog, codeLog, refreshLog, signupLog>>
  /\ IF ~HasText(email)
       THEN /\ resp' = SignupResponse("verify_otp", 400, "email is required")
            /\ UNCHANGED <<signupStore, signupInflight, served>>
     ELSE IF ~HasText(code)
       THEN /\ resp' = SignupResponse("verify_otp", 400, "code is required")
            /\ UNCHANGED <<signupStore, signupInflight, served>>
     ELSE IF ~ciamConfigured
       THEN /\ resp' = SignupResponse("verify_otp", 503, "native_auth_unavailable")
            /\ UNCHANGED <<signupStore, signupInflight, served>>
     ELSE /\ signupStore' = got.store
          /\ IF got.value = Null
               THEN /\ resp' = SignupReadResponse("verify_otp", 401, "expired_token",
                                                  emailTrimmed, hit)
                    /\ UNCHANGED <<signupInflight, served>>
               ELSE /\ signupInflight' = MapSet(signupInflight, r,
                          [op |-> "verify_otp", email |-> emailTrimmed,
                           continuationToken |-> got.value.continuationToken])
                    /\ served' = [served EXCEPT !.signup =
                          MapSet(@, got.value.continuationToken,
                                 Count(@, got.value.continuationToken) + 1)]
                    /\ resp' = [op |-> "verify_otp_await", email |-> emailTrimmed]

SignupVerifyOtpBegin ==
  /\ \E email \in EmailInputs, code \in OtpInputs : signupVerifyOtpBegin(email, code)
  /\ UNCHANGED idpCalls

\* a verification that takes a new token from every answer of the provider
verifyOtpNewTokenAlways(outcome, continuationToken) ==
  [kind |-> "post_otp", of |-> continuationToken]

\* signupVerifyOtp: newContinuationToken, from the provider's answer to
\* signup/continue (oob); 400 credential_required with a token is a success
verifyOtpNewToken(outcome, continuationToken) ==
  IF outcome \in {"ok", "credential_required"}
    THEN [kind |-> "post_otp", of |-> continuationToken]
    ELSE Null

\* history of a stage store: a token was stored for the email
StageStored(log, email, t) ==
  MapSet(log, LowerTrimEmail(email),
         [stored |-> (IF MapHas(log, LowerTrimEmail(email))
                        THEN log[LowerTrimEmail(email)].stored ELSE 0) + 1,
          served |-> 0, createdAt |-> t])

\* history of a stage store: the token stored last for the email was handed
\* to a request
StageServed(log, email) ==
  IF MapHas(log, LowerTrimEmail(email))
    THEN [log EXCEPT ![LowerTrimEmail(email)].served = @ + 1]
    ELSE log

\* signupVerifyOtp from the identity provider's answer to the response
signupVerifyOtpFinish(r, outcome) ==
  LET c == signupInflight[r]
      newContinuationToken == verifyOtpNewToken(outcome, c.continuationToken)
  IN
  /\ c.op = "verify_otp"
  /\ signupInflight' = MapDelete(signupInflight, r)
  /\ UNCHANGED <<now, googleService, personaRows, sessionStore, exchangeStore,
                 refreshStore,
                 signupStore, resetStartStore, resetPostOtpStore, inflight,
                 sessionLog, codeLog, refreshLog, signupLog, served>>
  /\ IF outcome = "throw"
       THEN /\ resp' = SignupIdpResponse("verify_otp", 500, "server_error", outcome)
            /\ UNCHANGED <<postOtpStore, stageLog>>
     ELSE IF newContinuationToken = Null
       THEN /\ resp' = SignupIdpResponse("verify_otp", 401, "invalid_grant",
                                          outcome)
            /\ UNCHANGED <<postOtpStore, stageLog>>
     ELSE /\ postOtpStore' = storePostOtpContinuationToken(postOtpStore, c.email,
                                                           newContinuationToken, now)
          /\ stageLog' = [stageLog EXCEPT !.postOtp = StageStored(@, c.email, now)]
          /\ resp' = SignupIdpResponse("verify_otp", 200, "", outcome)

SignupVerifyOtpFinish ==
  /\ \E r \in DOMAIN signupInflight, outcome \in VerifyOutcomes :
       signupVerifyOtpFinish(r, outcome)
  /\ UNCHANGED idpCalls

\* signupComplete up to the first call to the identity provider
signupCompleteBegin(email, code, password, displayName, role) ==
  LET emailTrimmed == LowerTrimEmail(email)
      got == getSignupContinuationToken(signupStore, emailTrimmed, now)
      hit == MapHas(signupStore, emailTrimmed)
      r == CHOOSE n \in 1..(Cardinality(DOMAIN signupInflight) + 1) :
             n \notin DOMAIN signupInflight
  IN
  /\ UNCHANGED <<now, googleService, personaRows, sessionStore, exchangeStore,
                 refreshStore,
                 postOtpStore, resetStartStore, resetPostOtpStore, stageLog,
                 inflight, sessionLog, codeLog, refreshLog, signupLog>>
  /\ IF ~HasText(email)
       THEN /\ resp' = SignupResponse("complete", 400, "email is required")
            /\ UNCHANGED <<signupStore, signupInflight, served>>
     ELSE IF ~HasText(code)
       THEN /\ resp' = SignupResponse("complete", 400, "code is required")
            /\ UNCHANGED <<signupStore, signupInflight, served>>
     ELSE IF password = ""
       THEN /\ resp' = SignupResponse("complete", 400, "password is required")
            /\ UNCHANGED <<signupStore, signupInflight, served>>
     ELSE IF ~HasText(displayName)
       THEN /\ resp' = SignupResponse("complete", 400, "displayName is required")
            /\ UNCHANGED <<signupStore, signupInflight, served>>
     ELSE IF ~HasText(role)
       THEN /\ resp' = SignupResponse("complete", 400, "role is required")
            /\ UNCHANGED <<signupStore, signupInflight, served>>
     ELSE IF ~ciamConfigured
       THEN /\ resp' = SignupResponse("complete", 503, "native_auth_unavailable")
            /\ UNCHANGED <<signupStore, signupInflight, served>>
     ELSE /\ signupStore' = got.store
          /\ IF got.value = Null
               THEN /\ resp' = SignupReadResponse("complete", 401, "expired_token",
                                                  emailTrimmed, hit)
                    /\ UNCHANGED <<signupInflight, served>>
               ELSE /\ signupInflight' = MapSet(signupInflight, r,
                          [op |-> "complete", email |-> emailTrimmed,
                           continuationToken |-> got.value.continuationToken])
                    /\ served' = [served EXCEPT !.signup =
                          MapSet(@, got.value.continuationToken,
                                 Count(@, got.value.continuationToken) + 1)]
                    /\ resp' = [op |-> "complete_await", email |-> emailTrimmed]

SignupCompleteBegin ==
  /\ \E req \in CompleteRequests :
       signupCompleteBegin(req.email, req.code, req.password, req.displayName, req.role)
  /\ UNCHANGED idpCalls

\* the answer of the identity provider to signup/continue (password), by how
\* far it lets the request get: a step before or after the password step does
\* not change the answer of the password step, 200 with a token
continuePasswordRes(outcome) ==
  CASE outcome = "weak" ->
         [status |-> 400, error |-> "invalid_grant",
          suberror |-> "password_too_weak", continuation_token |-> FALSE]
    [] outcome = "password" ->
         [status |-> 400, error |-> "invalid_grant", suberror |-> "",
          continuation_token |-> FALSE]
    [] outcome = "attributes_required" ->
         [status |-> 400, error |-> "attributes_required", suberror |-> "",
          continuation_token |-> TRUE]
    [] outcome = "attributes_required_no_token" ->
         [status |-> 400, error |-> "attributes_required", suberror |-> "",
          continuation_token |-> FALSE]
    [] OTHER ->
         [status |-> 200, error |-> "", suberror |-> "",
          continuation_token |-> TRUE]

\* a password step that takes every answer other than 200 for a failure
passwordStepOnly200(res) ==
  IF res.status # 200
    THEN IF res.error = "invalid_grant"
              /\ res.suberror \in {"password_too_weak", "password_too_short"}
           THEN [status |-> 400, error |-> "invalid_password"]
           ELSE [status |-> 401, error |-> "invalid_grant"]
    ELSE [status |-> 200, error |-> ""]

\* the password step of signupSubmitPassword and signupComplete: the error
\* response the request ends with, or status 200 when it goes on; after a 200
\* the token sent stands in for a missing one
passwordStep(res) ==
  IF res.status = 400 /\ res.error = "attributes_required"
       /\ res.continuation_token
    THEN [status |-> 200, error |-> ""]
  ELSE IF res.status # 200
    THEN IF res.error = "invalid_grant"
              /\ res.suberror \in {"password_too_weak", "password_too_short"}
           THEN [status |-> 400, error |-> "invalid_password"]
           ELSE [status |-> 401, error |-> "invalid_grant"]
  ELSE [status |-> 200, error |-> ""]

\* signupComplete: status and error of the response, by how far the identity
\* provider let the request get and what the database gave
signupCompleteAnswer(outcome, apiClaims) ==
  CASE outcome = "oob" -> [status |-> 401, error |-> "invalid_grant"]
    [] passwordStep(continuePasswordRes(outcome)).status # 200 ->
         passwordStep(continuePasswordRes(outcome))
    [] outcome = "attributes" -> [status |-> 400, error |-> "invalid_attributes"]
    [] outcome = "no_token" -> [status |-> 500, error |-> "signup_failed"]
    [] outcome = "token" -> [status |-> 401, error |-> "token_failed"]
    [] outcome = "id_token" -> [status |-> 500, error |-> "token_failed"]
    [] outcome \in {"ok", "attributes_required"} -> [status |-> 200, error |-> ""]
    [] OTHER -> [status |-> 500, error |-> "server_error"]

\* signupComplete from the identity provider's answers to the response
signupCompleteFinish(r, outcome, objectId, tokenEmail, apiClaims) ==
  LET c == signupInflight[r]
      answer == signupCompleteAnswer(outcome, apiClaims)
      idpUser == [objectId |-> objectId,
                  email |-> IF ~HasText(tokenEmail) THEN c.email ELSE tokenEmail]
      jwtPayload == buildUserClaims(idpUser, apiClaims)
      newRefreshToken == Cardinality(DOMAIN refreshLog) + 1
  IN
  /\ c.op = "complete"
  /\ signupInflight' = MapDelete(signupInflight, r)
  /\ UNCHANGED <<now, googleService, personaRows, sessionStore, exchangeStore,
                 signupStore,
                 postOtpStore, resetStartStore, resetPostOtpStore, stageLog,
                 inflight, sessionLog, codeLog, signupLog, served>>
  /\ IF answer.status # 200
       THEN /\ resp' = SignupIdpResponse("complete", answer.status, answer.error,
                                          outcome)
            /\ UNCHANGED <<refreshStore, refreshLog>>
     ELSE /\ newRefreshToken <= MaxRefresh
          /\ refreshStore' = createRefreshToken(refreshStore, newRefreshToken,
                                                jwtPayload, now)
          /\ refreshLog' = createRefreshToken(refreshLog, newRefreshToken,
                                              jwtPayload, now)
          /\ resp' = [op |-> "complete", status |-> 200, error |-> "",
                      idp |-> outcome,
                      body |-> [access_token |-> sign(jwtPayload, now),
                                token_type |-> "Bearer",
                                expires_in |-> jwtExpirationMinutes * 60,
                                refresh_token |-> newRefreshToken]]

SignupCompleteFinish ==
  /\ \E r \in DOMAIN signupInflight, outcome \in CompleteOutcomes,
        objectId \in IdpUsers, tokenEmail \in {"", "one@example.com"} :
       \E apiClaims \in {Null, DbClaimsOf(objectId)} :
         signupCompleteFinish(r, outcome, objectId, tokenEmail, apiClaims)
  /\ UNCHANGED idpCalls

\* a handler that sends whatever it read on to the identity provider
stageTokenMissingIgnored(value) == FALSE

\* if (!continuationToken): the read returned null
stageTokenMissing(value) == value = Null

\* the string | null a read returns
continuationTokenOf(value) ==
  IF value = Null THEN Null ELSE value.continuationToken

(***************************************************************************)
(* POST /auth/signup/submit-password                                       *)
(***************************************************************************)
\* req.body of POST /auth/signup/submit-password; displayName is optional
SubmitPasswordRequests ==
  { CompleteRequest("one@example.com", "", "pw", "One", "Member"),
    CompleteRequest(" One@Example.com ", "", "pw", "", "Member"),
    CompleteRequest("", "", "pw", "One", "Member"),
    CompleteRequest("one@example.com", "", "", "One", "Member"),
    CompleteRequest("one@example.com", "", "pw", "One", "  ") }
\* how far the identity provider lets a submit-password request get
SubmitPasswordOutcomes ==
  {"ok", "weak", "password", "attributes", "no_token", "token", "id_token",
   "attributes_required", "attributes_required_no_token"}

\* signupSubmitPassword up to the first call to the identity provider
signupSubmitPasswordBegin(email, password, displayName, role) ==
  LET emailTrimmed == LowerTrimEmail(email)
      got == getPostOtpContinuationToken(postOtpStore, emailTrimmed, now)
      hit == MapHas(postOtpStore, emailTrimmed)
      r == CHOOSE n \in 1..(Cardinality(DOMAIN signupInflight) + 1) :
             n \notin DOMAIN signupInflight
  IN
  /\ UNCHANGED <<now, googleService, personaRows, sessionStore, exchangeStore,
                 refreshStore,
                 signupStore, resetStartStore, resetPostOtpStore, inflight,
                 sessionLog, codeLog, refreshLog, signupLog, served>>
  /\ IF ~HasText(email)
       THEN /\ resp' = SignupResponse("submit_password", 400, "email is required")
            /\ UNCHANGED <<postOtpStore, signupInflight, stageLog>>
     ELSE IF password = ""
       THEN /\ resp' = SignupResponse("submit_password", 400, "password is required")
            /\ UNCHANGED <<postOtpStore, signupInflight, stageLog>>
     ELSE IF ~HasText(role)
       THEN /\ resp' = SignupResponse("submit_password", 400, "role is required")
            /\ UNCHANGED <<postOtpStore, signupInflight, stageLog>>
     ELSE IF ~ciamConfigured
       THEN /\ resp' = SignupResponse("submit_password", 503, "native_auth_unavailable")
            /\ UNCHANGED <<postOtpStore, signupInflight, stageLog>>
     ELSE /\ postOtpStore' = got.store
          /\ IF stageTokenMissing(got.value)
               THEN /\ resp' = SignupReadResponse("submit_password", 401,
                                                  "expired_token", emailTrimmed, hit)
                    /\ UNCHANGED <<signupInflight, stageLog>>
               ELSE /\ signupInflight' = MapSet(signupInflight, r,
                          [op |-> "submit_password", email |-> emailTrimmed,
                           continuationToken |-> continuationTokenOf(got.value)])
                    /\ stageLog' = [stageLog EXCEPT
                                      !.postOtp = StageServed(@, emailTrimmed)]
                    /\ resp' = [op |-> "submit_password_await", email |-> emailTrimmed]

SignupSubmitPasswordBegin ==
  /\ \E req \in SubmitPasswordRequests :
       signupSubmitPasswordBegin(req.email, req.password, req.displayName, req.role)
  /\ UNCHANGED idpCalls

\* signupSubmitPassword: status and error of the response, by how far the
\* identity provider let the request get and what the database gave
signupSubmitPasswordAnswer(outcome, apiClaims) ==
  CASE passwordStep(continuePasswordRes(outcome)).status # 200 ->
         passwordStep(continuePasswordRes(outcome))
    [] outcome = "attributes" -> [status |-> 400, error |-> "invalid_attributes"]
    [] outcome = "no_token" -> [status |-> 500, error |-> "signup_failed"]
    [] outcome = "token" -> [status |-> 401, error |-> "token_failed"]
    [] outcome = "id_token" -> [status |-> 500, error |-> "token_failed"]
    [] outcome \in {"ok", "attributes_required"} ->
         IF apiClaims = Null
           THEN [status |-> 500, error |-> "person_creation_failed"]
           ELSE [status |-> 200, error |-> ""]
    [] OTHER -> [status |-> 500, error |-> "server_error"]

\* signupSubmitPassword from the identity provider's answers to the response
signupSubmitPasswordFinish(r, outcome, objectId, tokenEmail, apiClaims) ==
  LET c == signupInflight[r]
      answer == signupSubmitPasswordAnswer(outcome, apiClaims)
      idpUser == [objectId |-> objectId,
                  email |-> IF ~HasText(tokenEmail) THEN c.email ELSE tokenEmail]
      jwtPayload == buildUserClaims(idpUser, apiClaims)
      newRefreshToken == Cardinality(DOMAIN refreshLog) + 1
  IN
  /\ c.op = "submit_password"
  /\ signupInflight' = MapDelete(signupInflight, r)
  /\ UNCHANGED <<now, googleService, personaRows, sessionStore, exchangeStore,
                 signupStore,
                 postOtpStore, resetStartStore, resetPostOtpStore, stageLog,
                 inflight, sessionLog, codeLog, signupLog, served>>
  /\ IF answer.status # 200
       THEN /\ resp' = SignupIdpResponse("submit_password", answer.status,
                                          answer.error, outcome)
            /\ UNCHANGED <<refreshStore, refreshLog>>
     ELSE /\ newRefreshToken <= MaxRefresh
          /\ refreshStore' = createRefreshToken(refreshStore, newRefreshToken,
                                                jwtPayload, now)
          /\ refreshLog' = createRefreshToken(refreshLog, newRefreshToken,
                                              jwtPayload, now)
          /\ resp' = [op |-> "submit_password", status |-> 200, error |-> "",
                      idp |-> outcome,
                      body |-> [access_token |-> sign(jwtPayload, now),
                                token_type |-> "Bearer",
                                expires_in |-> jwtExpirationMinutes * 60,
                                refresh_token |-> newRefreshToken]]

SignupSubmitPasswordFinish ==
  /\ \E r \in DOMAIN signupInflight, outcome \in SubmitPasswordOutcomes,
        objectId \in IdpUsers, tokenEmail \in {"", "one@example.com"} :
       \E apiClaims \in {Null, DbClaimsOf(objectId)} :
         signupSubmitPasswordFinish(r, outcome, objectId, tokenEmail, apiClaims)
  /\ UNCHANGED idpCalls

(***************************************************************************)
(* POST /auth/token/password                                               *)
(***************************************************************************)
GENERIC_AUTH_ERROR ==
  [error |-> "invalid_grant", error_description |-> "Invalid username or password"]

\* req.body.username and req.body.password
UsernameInputs == {"", "  ", "one@example.com", " One@Example.com "}
PasswordInputs == {"", "pw"}

\* how far the identity provider lets a password sign-in get
PasswordOutcomes ==
  {"network", "initiate", "redirect", "initiate_no_token", "challenge", "token",
   "password_expired", "token_expired", "token_error", "no_id_token",
   "bad_id_token", "ok"}

\* nativeAuthSignIn(username, password): the error it throws (threw, with the
\* message of the Error, word by word) or the tokens it returns
nativeAuthSignIn(username, password, outcome, objectId) ==
  CASE outcome = "network" ->
         [threw |-> TRUE, message |-> <<"fetch", "failed">>]
    [] outcome = "initiate" ->
         [threw |-> TRUE, message |-> <<"AADSTS50034", "user", "does", "not", "exist">>]
    [] outcome = "redirect" ->
         [threw |-> TRUE, message |-> <<"Web", "redirect", "required">>]
    [] outcome = "initiate_no_token" ->
         [threw |-> TRUE,
          message |-> <<"No", "continuation", "token", "from", "initiate">>]
    [] outcome = "challenge" ->
         [threw |-> TRUE, message |-> <<"Invalid", "credentials">>]
    [] outcome = "token" ->
         [threw |-> TRUE,
          message |-> <<"AADSTS50126", "Invalid", "username", "or", "password">>]
    [] outcome = "password_expired" ->
         [threw |-> TRUE, message |-> <<"AADSTS50055", "The", "password", "is", "expired">>]
    [] outcome = "token_expired" ->
         [threw |-> TRUE, message |-> <<"The", "continuation", "token", "has", "Expired">>]
    [] outcome = "token_error" ->
         [threw |-> TRUE, message |-> <<"Token", "request", "failed">>]
    [] outcome = "no_id_token" ->
         [threw |-> FALSE, id_token |-> Null]
    [] outcome = "bad_id_token" ->
         [threw |-> FALSE, id_token |-> [kind |-> "not-a-jwt"]]
    [] OTHER ->
         [threw |-> FALSE,
          id_token |-> [kind |-> "jwt", oid |-> objectId,
                        email |-> UserInfoOf(objectId).email]]

\* userFromIdToken(idToken): jwt.decode gives null for what is not a JWT
userFromIdToken(idToken) ==
  IF idToken.kind = "not-a-jwt"
    THEN [threw |-> TRUE, message |-> <<"Invalid", "id_token">>]
    ELSE [threw |-> FALSE, objectId |-> idToken.oid, email |-> idToken.email]

\* a response that passes on the message of the sign-in error
passwordSignInFailureWithMessage(entraErr) ==
  [error |-> "invalid_grant", error_description |-> entraErr.message]

\* passwordToken: the body sent when nativeAuthSignIn has thrown
passwordSignInFailure(entraErr) == GENERIC_AUTH_ERROR

PasswordResponse(status, body) == [op |-> "password", status |-> status, body |-> body]

\* passwordToken: the calls to the identity provider and to the database
\* neither read nor write the stores; the refresh token is created with the
\* response
passwordToken(username, password, outcome, objectId, apiClaims) ==
  LET tokens == nativeAuthSignIn(username, password, outcome, objectId)
      parsed == userFromIdToken(tokens.id_token)
      idpUser == [objectId |-> parsed.objectId, email |-> parsed.email]
      jwtPayload == buildUserClaims(idpUser, apiClaims)
      newRefreshToken == Cardinality(DOMAIN refreshLog) + 1
  IN
  /\ IF ~HasText(username)
       THEN /\ resp' = PasswordResponse(400, [error |-> "username is required"])
            /\ UNCHANGED <<refreshStore, refreshLog>>
     ELSE IF password = ""
       THEN /\ resp' = PasswordResponse(400, [error |-> "password is required"])
            /\ UNCHANGED <<refreshStore, refreshLog>>
     ELSE IF ~ciamConfigured
       THEN /\ resp' = PasswordResponse(503, [error |-> "native_auth_unavailable"])
            /\ UNCHANGED <<refreshStore, refreshLog>>
     ELSE IF tokens.threw
       THEN /\ resp' = PasswordResponse(401, passwordSignInFailure(tokens))
            /\ UNCHANGED <<refreshStore, refreshLog>>
     ELSE IF tokens.id_token = Null
       THEN /\ resp' = PasswordResponse(401, GENERIC_AUTH_ERROR)
            /\ UNCHANGED <<refreshStore, refreshLog>>
     ELSE IF parsed.threw
       THEN /\ resp' = PasswordResponse(401, GENERIC_AUTH_ERROR)
            /\ UNCHANGED <<refreshStore, refreshLog>>
     ELSE /\ newRefreshToken <= MaxRefresh
          /\ refreshStore' = createRefreshToken(refreshStore, newRefreshToken,
                                                jwtPayload, now)
          /\ refreshLog' = createRefreshToken(refreshLog, newRefreshToken,
                                              jwtPayload, now)
          /\ resp' = PasswordResponse(200,
                [access_token |-> sign(jwtPayload, now), token_type |-> "Bearer",
                 expires_in |-> jwtExpirationMinutes * 60,
                 refresh_token |-> newRefreshToken])
  /\ UNCHANGED <<now, googleService, personaRows, sessionStore, exchangeStore,
                 signupStore,
                 postOtpStore, resetStartStore, resetPostOtpStore, stageLog,
                 inflight, signupInflight, sessionLog, codeLog,
                 signupLog, served>>

PasswordToken ==
  /\ \E username \in UsernameInputs, password \in PasswordInputs :
       \* the provider and the datastore answer the requests that reach them
       LET reaches == HasText(username) /\ password # ""
       IN \E outcome \in IF reaches THEN PasswordOutcomes ELSE {"ok"},
             objectId \in IdpUsers :
            \E apiClaims \in IF reaches THEN {Null, DbClaimsOf(objectId)}
                                       ELSE {Null} :
              passwordToken(username, password, outcome, objectId, apiClaims)
  /\ UNCHANGED idpCalls

(***************************************************************************)
(* POST /auth/password-reset/start, /verify-otp, /submit-password          *)
(***************************************************************************)
ResetStartOutcomes == {"ok", "user_not_found", "redirect", "throw"}
ResetVerifyOutcomes == {"ok", "oob", "no_token", "throw"}
ResetSubmitOutcomes == {"ok", "weak"}
NewPasswordInputs == {"", "new-pw"}

ResetResponse(op, status, error) == [op |-> op, status |-> status, error |-> error]

\* passwordResetStart: the identity provider is called before the token is
\* stored; no store is read
passwordResetStart(email, outcome) ==
  LET emailTrimmed == LowerTrimEmail(email)
      n == IF MapHas(stageLog.resetStart, emailTrimmed)
             THEN stageLog.resetStart[emailTrimmed].stored ELSE 0
      continuationToken == [kind |-> "reset_start", id |-> n + 1]
  IN
  /\ UNCHANGED <<now, googleService, personaRows, sessionStore, exchangeStore,
                 refreshStore,
                 signupStore, postOtpStore, resetPostOtpStore, inflight,
                 signupInflight, sessionLog, codeLog, refreshLog, signupLog,
                 served>>
  /\ IF ~HasText(email)
       THEN /\ resp' = ResetResponse("reset_start", 400, "email is required")
            /\ UNCHANGED <<resetStartStore, stageLog>>
     ELSE IF ~IsEmailFormat(emailTrimmed)
       THEN /\ resp' = ResetResponse("reset_start", 400, "Invalid email format")
            /\ UNCHANGED <<resetStartStore, stageLog>>
     ELSE IF ~ciamConfigured
       THEN /\ resp' = ResetResponse("reset_start", 503, "native_auth_unavailable")
            /\ UNCHANGED <<resetStartStore, stageLog>>
     ELSE IF outcome # "ok"
       THEN /\ resp' = CASE outcome = "user_not_found" ->
                              ResetResponse("reset_start", 400, "user_not_found")
                         [] outcome = "redirect" ->
                              ResetResponse("reset_start", 400, "redirect_required")
                         [] outcome = "no_token" ->
                              ResetResponse("reset_start", 500, "reset_failed")
                         [] outcome = "throw" ->
                              ResetResponse("reset_start", 500, "server_error")
                         [] OTHER ->
                              ResetResponse("reset_start", 400, "reset_failed")
            /\ UNCHANGED <<resetStartStore, stageLog>>
     ELSE /\ n + 1 <= MaxStarts
          /\ resetStartStore' = storeResetPasswordStartToken(resetStartStore,
                                    emailTrimmed, continuationToken, now)
          /\ stageLog' = [stageLog EXCEPT
                            !.resetStart = StageStored(@, emailTrimmed, now)]
          /\ resp' = ResetResponse("reset_start", 200, "")

PasswordResetStart ==
  /\ \E email \in EmailInputs, outcome \in ResetStartOutcomes :
       passwordResetStart(email, outcome)
  /\ UNCHANGED idpCalls

\* passwordResetVerifyOtp up to the call to the identity provider; the token
\* is read before the tenant configuration is looked at
passwordResetVerifyOtpBegin(email, code) ==
  LET emailTrimmed == LowerTrimEmail(email)
      got == getResetPasswordStartToken(resetStartStore, emailTrimmed, now)
      hit == MapHas(resetStartStore, emailTrimmed)
      r == CHOOSE n \in 1..(Cardinality(DOMAIN signupInflight) + 1) :
             n \notin DOMAIN signupInflight
  IN
  /\ UNCHANGED <<now, googleService, personaRows, sessionStore, exchangeStore,
                 refreshStore,
                 signupStore, postOtpStore, resetPostOtpStore, inflight,
                 sessionLog, codeLog, refreshLog, signupLog, served>>
  /\ IF ~HasText(email)
       THEN /\ resp' = ResetResponse("reset_verify_otp", 400, "email is required")
            /\ UNCHANGED <<resetStartStore, signupInflight, stageLog>>
     ELSE IF ~HasText(code)
       THEN /\ resp' = ResetResponse("reset_verify_otp", 400, "code is required")
            /\ UNCHANGED <<resetStartStore, signupInflight, stageLog>>
     ELSE /\ resetStartStore' = got.store
          /\ IF stageTokenMissing(got.value)
               THEN /\ resp' = SignupReadResponse("reset_verify_otp", 401,
                                                  "expired_token", emailTrimmed, hit)
                    /\ UNCHANGED <<signupInflight, stageLog>>
               ELSE /\ stageLog' = [stageLog EXCEPT
                                      !.resetStart = StageServed(@, emailTrimmed)]
                    /\ IF ~ciamConfigured
                         THEN /\ resp' = ResetResponse("reset_verify_otp", 503,
                                                       "native_auth_unavailable")
                              /\ UNCHANGED signupInflight
                         ELSE /\ signupInflight' = MapSet(signupInflight, r,
                                    [op |-> "reset_verify_otp", email |-> emailTrimmed,
                                     continuationToken |-> continuationTokenOf(got.value)])
                              /\ resp' = [op |-> "reset_verify_otp_await",
                                          email |-> emailTrimmed]

PasswordResetVerifyOtpBegin ==
  /\ \E email \in EmailInputs, code \in OtpInputs :
       passwordResetVerifyOtpBegin(email, code)
  /\ UNCHANGED idpCalls

\* passwordResetVerifyOtp from the identity provider's answer to the response
passwordResetVerifyOtpFinish(r, outcome) ==
  LET c == signupInflight[r]
      newToken == [kind |-> "reset_post_otp", of |-> c.continuationToken]
  IN
  /\ c.op = "reset_verify_otp"
  /\ signupInflight' = MapDelete(signupInflight, r)
  /\ UNCHANGED <<now, googleService, personaRows, sessionStore, exchangeStore,
                 refreshStore,
                 signupStore, postOtpStore, resetStartStore, inflight,
                 sessionLog, codeLog, refreshLog, signupLog, served>>
  /\ IF outcome = "ok"
       THEN /\ resetPostOtpStore' = storeResetPasswordPostOtpToken(
                                      resetPostOtpStore, c.email, newToken, now)
            /\ stageLog' = [stageLog EXCEPT
                              !.resetPostOtp = StageStored(@, c.email, now)]
            /\ resp' = ResetResponse("reset_verify_otp", 200, "")
     ELSE /\ resp' = CASE outcome = "oob" ->
                            ResetResponse("reset_verify_otp", 400, "invalid_grant")
                       [] outcome = "no_token" ->
                            ResetResponse("reset_verify_otp", 500, "reset_failed")
                       [] OTHER ->
                            ResetResponse("reset_verify_otp", 500, "server_error")
          /\ UNCHANGED <<resetPostOtpStore, stageLog>>

PasswordResetVerifyOtpFinish ==
  /\ \E r \in DOMAIN signupInflight, outcome \in ResetVerifyOutcomes :
       passwordResetVerifyOtpFinish(r, outcome)
  /\ UNCHANGED idpCalls

\* passwordResetSubmitPassword up to the call to resetpassword/submit
passwordResetSubmitPasswordBegin(email, new_password) ==
  LET emailTrimmed == LowerTrimEmail(email)
      got == getResetPasswordPostOtpToken(resetPostOtpStore, emailTrimmed, now)
      hit == MapHas(resetPostOtpStore, emailTrimmed)
      r == CHOOSE n \in 1..(Cardinality(DOMAIN signupInflight) + 1) :
             n \notin DOMAIN signupInflight
  IN
  /\ UNCHANGED <<now, googleService, personaRows, sessionStore, exchangeStore,
                 refreshStore,
                 signupStore, postOtpStore, resetStartStore, inflight,
                 sessionLog, codeLog, refreshLog, signupLog, served>>
  /\ IF ~HasText(email)
       THEN /\ resp' = ResetResponse("reset_submit", 400, "email is required")
            /\ UNCHANGED <<resetPostOtpStore, signupInflight, stageLog>>
     ELSE IF new_password = ""
       THEN /\ resp' = ResetResponse("reset_submit", 400, "new_password is required")
            /\ UNCHANGED <<resetPostOtpStore, signupInflight, stageLog>>
     ELSE /\ resetPostOtpStore' = got.store
          /\ IF stageTokenMissing(got.value)
               THEN /\ resp' = SignupReadResponse("reset_submit", 401,
                                                  "expired_token", emailTrimmed, hit)
                    /\ UNCHANGED <<signupInflight, stageLog>>
               ELSE /\ stageLog' = [stageLog EXCEPT
                                      !.resetPostOtp = StageServed(@, emailTrimmed)]
                    /\ IF ~ciamConfigured
                         THEN /\ resp' = ResetResponse("reset_submit", 503,
                                                       "native_auth_unavailable")
                              /\ UNCHANGED signupInflight
                         ELSE /\ signupInflight' = MapSet(signupInflight, r,
                                    [op |-> "reset_submit", email |-> emailTrimmed,
                                     continuationToken |-> continuationTokenOf(got.value),
                                     new_password |-> new_password])
                              /\ resp' = [op |-> "reset_submit_await",
                                          email |-> emailTrimmed]

PasswordResetSubmitPasswordBegin ==
  /\ \E email \in EmailInputs, new_password \in NewPasswordInputs :
       passwordResetSubmitPasswordBegin(email, new_password)
  /\ UNCHANGED idpCalls

\* passwordResetSubmitPassword: the answer to resetpassword/submit; when the
\* password was accepted the handler goes on to sign the user in
passwordResetSubmitted(r, outcome) ==
  LET c == signupInflight[r]
  IN
  /\ c.op = "reset_submit"
  /\ UNCHANGED <<now, googleService, personaRows, sessionStore, exchangeStore,
                 refreshStore,
                 signupStore, postOtpStore, resetStartStore, resetPostOtpStore,
                 stageLog, inflight, sessionLog, codeLog, refreshLog,
                 signupLog,
                 served>>
  /\ IF outcome # "ok"
       THEN /\ signupInflight' = MapDelete(signupInflight, r)
            /\ resp' = ResetResponse("reset_submit", 400, "invalid_grant")
       ELSE /\ signupInflight' = MapSet(signupInflight, r,
                  [op |-> "reset_sign_in", email |-> c.email,
                   new_password |-> c.new_password, attempts |-> 0,
                   errors |-> <<>>])
            /\ resp' = [op |-> "reset_sign_in_await", email |-> c.email]

PasswordResetSubmitted ==
  /\ \E r \in DOMAIN signupInflight, outcome \in ResetSubmitOutcomes :
       passwordResetSubmitted(r, outcome)
  /\ UNCHANGED idpCalls

\* msg.toLowerCase(), word by word
ToLowerCase(message) ==
  [i \in 1..Len(message) |->
     CASE message[i] = "Expired" -> "expired"
       [] message[i] = "AADSTS50055" -> "aadsts50055"
       [] message[i] = "AADSTS50126" -> "aadsts50126"
       [] message[i] = "AADSTS50034" -> "aadsts50034"
       [] OTHER -> message[i]]

\* lower.includes(needle): the words of the model that contain the needle
Includes(lower, needle) ==
  \E i \in 1..Len(lower) :
    \/ lower[i] = needle
    \/ needle = "expired" /\ lower[i] \in {"password_expired", "user_password_expired"}
    \/ needle = "password_expired" /\ lower[i] = "user_password_expired"

\* isRetryableSignInError(err)
isRetryableSignInError(err) ==
  LET lower == ToLowerCase(err.message)
  IN \/ Includes(lower, "password_expired")
     \/ Includes(lower, "user_password_expired")
     \/ Includes(lower, "aadsts50055")
     \/ Includes(lower, "expired")

\* a sign-in that is attempted again after every retryable error
signInAgainEveryTime(attempts, firstErr) == isRetryableSignInError(firstErr)

\* passwordResetSubmitPassword: the nested try, which calls nativeAuthSignIn a
\* second time in the catch of the first call only
signInAgain(attempts, firstErr) ==
  attempts = 1 /\ isRetryableSignInError(firstErr)

\* the 200 that tells the caller to sign in with the new password; signIns is
\* the number of calls of nativeAuthSignIn the request has made
SignInAfterResetFailed(message, signIns) ==
  [op |-> "reset_submit", status |-> 200, error |-> "", signIns |-> signIns,
   body |-> [sign_in_after_reset_failed |-> TRUE, sign_in_error |-> message]]

\* passwordResetSubmitPassword: one call of nativeAuthSignIn and what follows
\* its answer
passwordResetSignIn(r, outcome, objectId, apiClaims) ==
  LET c == signupInflight[r]
      tokens == nativeAuthSignIn(c.email, c.new_password, outcome, objectId)
      attempts == c.attempts + 1
      parsed == userFromIdToken(tokens.id_token)
      idpUser == [objectId |-> parsed.objectId,
                  email |-> IF ~HasText(parsed.email) THEN c.email ELSE parsed.email]
      jwtPayload == buildUserClaims(idpUser, apiClaims)
      newRefreshToken == Cardinality(DOMAIN refreshLog) + 1
  IN
  /\ c.op = "reset_sign_in"
  /\ UNCHANGED <<now, googleService, personaRows, sessionStore, exchangeStore,
                 signupStore,
                 postOtpStore, resetStartStore, resetPostOtpStore, stageLog,
                 inflight, sessionLog, codeLog, signupLog, served>>
  /\ IF tokens.threw /\ signInAgain(attempts, tokens)
       THEN /\ signupInflight' = MapSet(signupInflight, r,
                  [c EXCEPT !.attempts = attempts,
                            !.errors = Append(@, tokens.message)])
            /\ resp' = [op |-> "reset_sign_in_await", email |-> c.email]
            /\ UNCHANGED <<refreshStore, refreshLog>>
     ELSE /\ signupInflight' = MapDelete(signupInflight, r)
          /\ IF tokens.threw
               THEN /\ resp' = SignInAfterResetFailed(tokens.message, attempts)
                    /\ UNCHANGED <<refreshStore, refreshLog>>
             ELSE IF tokens.id_token = Null
               THEN /\ resp' = SignInAfterResetFailed(
                                 <<"No", "id_token", "returned", "after", "sign-in.">>,
                                 attempts)
                    /\ UNCHANGED <<refreshStore, refreshLog>>
             ELSE IF parsed.threw
               THEN /\ resp' = SignInAfterResetFailed(parsed.message, attempts)
                    /\ UNCHANGED <<refreshStore, refreshLog>>
             ELSE /\ newRefreshToken <= MaxRefresh
                  /\ refreshStore' = createRefreshToken(refreshStore, newRefreshToken,
                                                        jwtPayload, now)
                  /\ refreshLog' = createRefreshToken(refreshLog, newRefreshToken,
                                                      jwtPayload, now)
                  /\ resp' = [op |-> "reset_submit", status |-> 200, error |-> "",
                              signIns |-> attempts,
                              body |-> [access_token |-> sign(jwtPayload, now),
                                        token_type |-> "Bearer",
                                        expires_in |-> jwtExpirationMinutes * 60,
                                        refresh_token |-> newRefreshToken]]

PasswordResetSignIn ==
  /\ \E r \in DOMAIN signupInflight, outcome \in PasswordOutcomes,
        objectId \in IdpUsers :
       \E apiClaims \in {Null, DbClaimsOf(objectId)} :
         passwordResetSignIn(r, outcome, objectId, apiClaims)
  /\ UNCHANGED idpCalls

(***************************************************************************)
(* The periodic sweeps (setInterval, every 5 minutes).                     *)
(***************************************************************************)
cleanupExpiredSessions ==
  /\ sessionStore' = cleanupExpiredSessionsOf(sessionStore, now)
  /\ resp' = [op |-> "cleanupExpiredSessions"]
  /\ UNCHANGED <<idpCalls, now, googleService, personaRows, exchangeStore, refreshStore,
                 signupStore,
                 postOtpStore, resetStartStore, resetPostOtpStore, stageLog,
                 inflight, signupInflight, sessionLog, codeLog,
                 refreshLog, signupLog, served>>

cleanupExpiredTokens ==
  /\ exchangeStore' = cleanupExpiredOf(exchangeStore, EXCHANGE_CODE_TTL_MS, now)
  /\ refreshStore' = cleanupExpiredOf(refreshStore, getRefreshTokenTTL, now)
  /\ signupStore' = cleanupExpiredOf(signupStore, SIGNUP_TOKEN_TTL_MS, now)
  /\ resp' = [op |-> "cleanupExpiredTokens"]
  /\ UNCHANGED <<idpCalls, now, googleService, personaRows, sessionStore, postOtpStore,
                 resetStartStore, resetPostOtpStore, stageLog,
                 inflight,
                 signupInflight, sessionLog, codeLog, refreshLog, signupLog,
                 served>>

(***************************************************************************)
(* Specifications.                                                         *)
(***************************************************************************)
\* the redirect-based sign-in: login and callback under every request
NextSession ==
  \/ Tick(SESSION_EXPIRATION_MS)
  \/ Login(LoginRequests, MaxSessions)
  \/ CallbackBegin(CallbackRequests)
  \/ CallbackFinish
  \/ cleanupExpiredSessions

SpecSession == Init /\ [][NextSession]_vars

\* the token endpoints, fed by the sign-ins of a correctly configured spoke app
NextTokens ==
  \/ Tick(EXCHANGE_CODE_TTL_MS)
  \/ Tick(getRefreshTokenTTL)
  \/ Login(SpokeLoginRequests, MaxIssued)
  \/ CallbackBegin(BrowserCallbackRequests)
  \/ CallbackFinish
  \/ ExchangeToken
  \/ RefreshToken
  \/ cleanupExpiredTokens

\* a spoke sign-in names no provider: whether Google is configured plays no part
InitTokens == Init /\ googleService

SpecTokens == InitTokens /\ [][NextTokens]_vars

\* every store with its producers, its consumers and its sweep; a behaviour
\* serves the redirect sign-in or the native sign-up: the first stored entry
\* of one closes the other
RedirectLogin == signupLog = EmptyMap /\ Login(SpokeLoginRequests, MaxIssued)
NativeSignupStart == sessionLog = EmptyMap /\ SignupStart

Next ==
  \/ Tick(SESSION_EXPIRATION_MS)
  \/ Tick(getRefreshTokenTTL)
  \/ RedirectLogin
  \/ CallbackBegin(BrowserCallbackRequests)
  \/ CallbackFinish
  \/ ExchangeToken
  \/ RefreshToken
  \/ NativeSignupStart
  \/ SignupVerifyOtpBegin
  \/ SignupVerifyOtpFinish
  \/ SignupCompleteBegin
  \/ SignupCompleteFinish
  \/ cleanupExpiredSessions
  \/ cleanupExpiredTokens

Spec == InitTokens /\ [][Next]_vars

(***************************************************************************)
(* The token endpoints (SpecTokens).                                       *)
(***************************************************************************)
\* an exchange request that presents a client identifier
PresentedClientIds == ClientIdInputs \ {""}

\* C1: once an exchange of a code issued by a callback has returned 200,
\* every later exchange request that presents the same code, under whichever
\* client_id, returns 400 invalid_grant and is served nothing.
C1_ReplayRejected ==
  [][\A c \in DOMAIN codeLog : \A client_id \in PresentedClientIds :
       (Count(served.exchange, c) >= 1 /\ exchangeToken(c, client_id))
         => /\ resp'.status = 400
            /\ resp'.error = "invalid_grant"
            /\ resp'.body = Null
            /\ served' = served]_vars

\* a code that was exchanged with 200 has been presented again and refused
C1_Witness ==
  /\ resp.op = "exchange"
  /\ resp.status = 400
  /\ resp.error = "invalid_grant"
  /\ resp.key \in DOMAIN codeLog
  /\ Count(served.exchange, resp.key) = 1

\* a refresh token that was issued, never served and is no older than its
\* lifetime
ValidRefreshToken(rt) ==
  /\ rt \in DOMAIN refreshLog
  /\ Count(served.refresh, rt) = 0
  /\ now - refreshLog[rt].createdAt <= getRefreshTokenTTL

\* C3: a refresh with a valid token rt1 returns 200 with an access token
\* signed now over rt1's payload and a refresh token rt2 that is new and is
\* not rt1, leaves rt1 out of the store and rt2 in it; once rt1 has been
\* served, every refresh with rt1 returns 400 invalid_grant.  (That a refresh
\* with rt2 succeeds is the first part again, rt2 being valid.)
C3_RefreshRotation ==
  [][\A rt1 \in DOMAIN refreshLog :
       refreshToken(rt1) =>
         /\ ValidRefreshToken(rt1) =>
               /\ resp'.status = 200
               /\ resp'.body.access_token = sign(refreshLog[rt1].payload, now)
               /\ resp'.body.refresh_token # rt1
               /\ resp'.body.refresh_token \notin DOMAIN refreshLog
               /\ rt1 \notin DOMAIN refreshStore'
               /\ resp'.body.refresh_token \in DOMAIN refreshStore'
               /\ refreshStore'[resp'.body.refresh_token].payload
                    = refreshLog[rt1].payload
         /\ Count(served.refresh, rt1) >= 1 =>
               /\ resp'.status = 400
               /\ resp'.error = "invalid_grant"
               /\ resp'.body = Null
               /\ refreshStore' = refreshStore]_vars

\* rt1 was rotated into rt2, rt2 has just been refreshed with success, and
\* rt1 is out of the store
C3_Witness ==
  /\ resp.op = "refresh"
  /\ resp.status = 200
  /\ \E rt1 \in DOMAIN refreshLog :
        /\ rt1 # resp.key
        /\ Count(served.refresh, rt1) = 1
        /\ Count(served.refresh, resp.key) = 1
        /\ rt1 \notin DOMAIN refreshStore
        /\ resp.key \notin DOMAIN refreshStore
        /\ resp.body.refresh_token \in DOMAIN refreshStore

\* the client identifier recorded in the session that produced a code
ClientOfCode(c) == sessionLog[codeLog[c].state].clientId

\* C8: an exchange request that presents a client_id other than the one of the
\* session that produced the code returns 400 invalid_grant and no token,
\* whatever the state of the code.
C8_ClientBound ==
  [][\A c \in DOMAIN codeLog : \A client_id \in PresentedClientIds :
       (client_id # ClientOfCode(c) /\ exchangeToken(c, client_id))
         => /\ resp'.status = 400
            /\ resp'.error = "invalid_grant"
            /\ resp'.body = Null
            /\ served' = served]_vars

\* a code that was stored, unexpired and never served has been refused: the
\* client_id presented was not the recorded one
C8_Witness ==
  /\ resp.op = "exchange"
  /\ resp.status = 400
  /\ resp.error = "invalid_grant"
  /\ resp.hit
  /\ resp.key \in DOMAIN codeLog
  /\ now - codeLog[resp.key].createdAt <= EXCHANGE_CODE_TTL_MS
  /\ Count(served.exchange, resp.key) = 0

(***************************************************************************)
(* The redirect-based sign-in (SpecSession).                               *)
(***************************************************************************)
\* C4: a callback with code and state present whose auth_state cookie is
\* absent or differs from the state returns 400, with or without a session
\* stored for the state, and neither consumes a session nor reaches the
\* identity provider.
C4_CsrfRejected ==
  [][\A req \in CallbackRequests :
       (/\ req.code # ""
        /\ req.state # 0
        /\ req.cookie # req.state
        /\ callbackBegin(req.error, req.code, req.state, req.provider, req.cookie))
         => /\ resp'.op = "callback"
            /\ resp'.status = 400
            /\ inflight' = inflight
            /\ sessionStore' = sessionStore
            /\ served' = served]_vars

\* a callback was refused for its cookie while a live session is stored for
\* its state
C4_Witness ==
  /\ resp.op = "callback"
  /\ resp.status = 400
  /\ resp.error = "Invalid state parameter"
  /\ MapHas(sessionStore, resp.state)
  /\ now - sessionStore[resp.state].createdAt <= SESSION_EXPIRATION_MS

C6_ConsumedOnce ==
  [][/\ \A s \in DOMAIN sessionLog : Count(served'.session, s) <= 1
     /\ \A r \in DOMAIN inflight' : ~MapHas(sessionStore', inflight'[r].state)
     /\ \A s \in DOMAIN served'.session : ~MapHas(sessionStore', s)
     /\ \A req \in CallbackRequests :
          (/\ Count(served.session, req.state) >= 1
           /\ req.error = "" /\ req.code # "" /\ req.cookie = req.state
           /\ callbackBegin(req.error, req.code, req.state, req.provider, req.cookie))
            => /\ resp'.op = "callback"
               /\ resp'.status = 400
               /\ resp'.error = "Session expired or invalid"
               /\ inflight' = inflight]_vars

\* while one callback is at the identity provider, a second one with the same
\* state has been refused
C6_Witness ==
  /\ resp.op = "callback"
  /\ resp.status = 400
  /\ resp.error = "Session expired or invalid"
  /\ \E r \in DOMAIN inflight : inflight[r].state = resp.state
  /\ Count(served.session, resp.state) = 1

\* the part before '?' of the redirect_uri as the handler received it equals
\* that of a configured URI
BaseConfigured(redirect_uri) ==
  \E i \in 1..Len(redirectUris) :
    SplitBase(redirect_uri) = SplitBase(redirectUris[i])

\* C9: a login whose redirect_uri has, before its '?', the part before '?' of
\* no configured URI returns 400, stores no session and sets no cookie; one
\* whose base is configured gets past the allow-list.
C9_AllowList ==
  [][\A req \in LoginRequests : \A authUrlOk \in BOOLEAN :
       (/\ req.client_id # ""
        /\ req.redirect_uri # <<>>
        /\ login(req.client_id, req.redirect_uri, req.provider, authUrlOk, MaxSessions))
         => IF BaseConfigured(req.redirect_uri)
              THEN resp'.setCookie # 0 /\ MapHas(sessionStore', resp'.setCookie)
              ELSE /\ resp'.status = 400
                   /\ resp'.setCookie = 0
                   /\ sessionStore' = sessionStore]_vars

LoginAccepted(req) ==
  /\ req.client_id # ""
  /\ req.redirect_uri # <<>>
  /\ decodeURIComponent(req.redirect_uri) # URIError
  /\ isValidRedirectUri(SplitBase(decodeURIComponent(req.redirect_uri)))

\* C24: the provider of every stored session is 'microsoft' or 'google', and
\* 'google' only when the Google service is configured; a login whose
\* client_id and redirect_uri are accepted stores a session whatever its
\* provider parameter is, and is answered with the redirect unless the
\* authorization URL could not be built.
C24_ProviderFallback ==
  [][/\ \A state \in DOMAIN sessionLog' :
          /\ sessionLog'[state].provider \in {"microsoft", "google"}
          /\ sessionLog'[state].provider = "google" => googleService
     /\ \A req \in LoginRequests : \A authUrlOk \in BOOLEAN :
          (/\ LoginAccepted(req)
           /\ login(req.client_id, req.redirect_uri, req.provider, authUrlOk,
                    MaxSessions))
            => /\ DOMAIN sessionLog' # DOMAIN sessionLog
               /\ resp'.setCookie # 0
               /\ authUrlOk => resp'.status = 302]_vars

(***************************************************************************)
(* The stores (Spec).                                                      *)
(***************************************************************************)
\* C2: an exchange code, a refresh token and a sign-up continuation token are
\* each handed to at most one request, however the requests that present the
\* same key interleave; every other request gets null.
C2_ServedAtMostOnce ==
  /\ \A c \in DOMAIN served.exchange : served.exchange[c] <= 1
  /\ \A rt \in DOMAIN served.refresh : served.refresh[rt] <= 1
  /\ \A tok \in DOMAIN served.signup : served.signup[tok] <= 1

\* while the request that got a sign-up token is still at the identity
\* provider, a second request for the same email has read the store and got
\* null
C2_Witness ==
  /\ resp.op \in {"verify_otp", "complete"}
  /\ resp.status = 401
  /\ resp.error = "expired_token"
  /\ \E r \in DOMAIN signupInflight :
        /\ signupInflight[r].email = resp.email
        /\ Count(served.signup, signupInflight[r].continuationToken) = 1
        /\ now - signupLog[signupInflight[r].continuationToken].createdAt
             <= SIGNUP_TOKEN_TTL_MS

\* every entry ever stored under the key is older than ttl
AllExpired(log, keys, ttl) ==
  /\ keys # {}
  /\ \A k \in keys : now - log[k].createdAt > ttl

SignupTokensOf(email) == {tok \in DOMAIN signupLog : signupLog[tok].email = email}

\* C7: a read of an entry older than its TTL finds nothing, swept or not: the
\* callback returns 400 'Session expired or invalid', exchange and refresh
\* return 400 invalid_grant, verify-otp and complete return 401 expired_token,
\* and none of them goes further.
C7_ExpiredIsAbsent ==
  [][/\ \A req \in BrowserCallbackRequests :
          (/\ AllExpired(sessionLog, {req.state} \cap DOMAIN sessionLog,
                         SESSION_EXPIRATION_MS)
           /\ callbackBegin(req.error, req.code, req.state, req.provider, req.cookie))
            => /\ resp'.op = "callback"
               /\ resp'.status = 400
               /\ resp'.error = "Session expired or invalid"
               /\ inflight' = inflight
     /\ \A c \in DOMAIN codeLog : \A client_id \in PresentedClientIds :
          (/\ AllExpired(codeLog, {c}, EXCHANGE_CODE_TTL_MS)
           /\ exchangeToken(c, client_id))
            => /\ resp'.status = 400
               /\ resp'.error = "invalid_grant"
               /\ resp'.body = Null
     /\ \A rt \in DOMAIN refreshLog :
          (AllExpired(refreshLog, {rt}, getRefreshTokenTTL) /\ refreshToken(rt))
            => /\ resp'.status = 400
               /\ resp'.error = "invalid_grant"
               /\ resp'.body = Null
               /\ refreshLog' = refreshLog
     /\ \A email \in EmailInputs : \A code \in OtpInputs :
          (/\ HasText(email) /\ HasText(code)
           /\ AllExpired(signupLog, SignupTokensOf(LowerTrimEmail(email)),
                         SIGNUP_TOKEN_TTL_MS)
           /\ signupVerifyOtpBegin(email, code))
            => /\ resp'.op = "verify_otp"
               /\ resp'.status = 401
               /\ resp'.error = "expired_token"
               /\ signupInflight' = signupInflight
     /\ \A req \in CompleteRequests :
          (/\ HasText(req.email) /\ HasText(req.code) /\ req.password # ""
           /\ HasText(req.displayName) /\ HasText(req.role)
           /\ AllExpired(signupLog, SignupTokensOf(LowerTrimEmail(req.email)),
                         SIGNUP_TOKEN_TTL_MS)
           /\ signupCompleteBegin(req.email, req.code, req.password,
                                  req.displayName, req.role))
            => /\ resp'.op = "complete"
               /\ resp'.status = 401
               /\ resp'.error = "expired_token"
               /\ signupInflight' = signupInflight]_vars

\* an expired session that no sweep had removed was read and the callback
\* refused
C7_Witness ==
  /\ resp.op = "callback"
  /\ resp.status = 400
  /\ resp.error = "Session expired or invalid"
  /\ resp.hit
  /\ Count(served.session, resp.state) = 0
  /\ now - sessionLog[resp.state].createdAt > SESSION_EXPIRATION_MS

(***************************************************************************)
(* Two spoke apps signing in side by side (SpecExchange).                  *)
(***************************************************************************)
\* the logins of two spoke apps, each with its own redirect URI
SpokePairLoginRequests ==
  { LoginRequest("app1", <<"https://app1/cb">>, ""),
    LoginRequest("app2", <<"https://app2/cb">>, "") }
SpokePairCallbackRequests ==
  { CallbackRequest("", "authcode", s, "", s) : s \in 1..MaxSpokeSessions }
SpokeUsers == {"oid-1", "oid-2"}

\* the callbacks of the two sign-ins end for either user, with or without
\* claims from the database, or fail at the identity provider
SpokePairCallbackFinish ==
  /\ \E r \in DOMAIN inflight, tokenOk \in BOOLEAN, objectId \in SpokeUsers :
       \E apiClaims \in {Null, DbClaimsOf(objectId)} :
         callbackFinish(r, tokenOk, TRUE, objectId, apiClaims)
  /\ UNCHANGED idpCalls

SpokePairExchangeToken ==
  /\ \E exchange_code \in 0..MaxSpokeSessions, client_id \in ClientIdInputs :
       exchangeToken(exchange_code, client_id)
  /\ UNCHANGED idpCalls

NextExchange ==
  \/ Tick(EXCHANGE_CODE_TTL_MS)
  \/ Login(SpokePairLoginRequests, MaxSpokeSessions)
  \/ CallbackBegin(SpokePairCallbackRequests)
  \/ SpokePairCallbackFinish
  \/ SpokePairExchangeToken

SpecExchange == InitTokens /\ [][NextExchange]_vars

\* C11: the first exchange request for a code (the code is still stored, and
\* within its lifetime) that presents the client_id of the session behind the
\* code returns 200 with the access token signed in the callback of that
\* session, its expires_in and the refresh token created in that callback,
\* and with no token of another callback.
C11_ExchangeReturnsOwnTokens ==
  [][\A c \in DOMAIN codeLog :
       (/\ resp'.op = "exchange"
        /\ MapHas(exchangeStore, c)
        /\ now - codeLog[c].createdAt <= EXCHANGE_CODE_TTL_MS
        /\ exchangeToken(c, ClientOfCode(c)))
         => /\ resp'.status = 200
            /\ resp'.body.access_token = codeLog[c].accessToken
            /\ resp'.body.expires_in = jwtExpirationMinutes * 60
            /\ resp'.body.expires_in
                 = resp'.body.access_token.exp - resp'.body.access_token.iat
            /\ resp'.body.refresh_token = codeLog[c].refreshToken
            /\ sign(refreshLog[resp'.body.refresh_token].payload,
                    codeLog[c].createdAt) = resp'.body.access_token
            /\ \A d \in DOMAIN codeLog \ {c} :
                 resp'.body.refresh_token # codeLog[d].refreshToken]_vars

\* with the codes of two sessions of different users issued, the exchange of
\* one has returned its own tokens while the other code is still stored
C11_Witness ==
  /\ resp.op = "exchange"
  /\ resp.status = 200
  /\ \E d \in DOMAIN exchangeStore :
        /\ d # resp.key
        /\ codeLog[d].accessToken # codeLog[resp.key].accessToken
        /\ ClientOfCode(d) # ClientOfCode(resp.key)
  /\ resp.body.access_token = codeLog[resp.key].accessToken
  /\ resp.body.refresh_token = codeLog[resp.key].refreshToken

(***************************************************************************)
(* The password sign-in (SpecPassword).                                    *)
(***************************************************************************)
NextPassword ==
  \/ Tick(getRefreshTokenTTL)
  \/ PasswordToken
  \/ RefreshToken
  \/ cleanupExpiredTokens

SpecPassword == InitTokens /\ [][NextPassword]_vars

\* C12: a password sign-in with username and password present that fails at
\* the identity provider, at whichever stage (the request itself, initiate,
\* challenge, token, an answer without id_token, an id_token that does not
\* decode), gets one and the same response, 401 invalid_grant 'Invalid
\* username or password', and no token is created.
C12_GenericFailure ==
  [][LET generic == /\ resp' = [op |-> "password", status |-> 401,
                                body |-> [error |-> "invalid_grant",
                                          error_description |->
                                            "Invalid username or password"]]
                    /\ refreshStore' = refreshStore
                    /\ refreshLog' = refreshLog
     IN \/ generic
        \/ \A username \in UsernameInputs, password \in PasswordInputs,
              outcome \in PasswordOutcomes \ {"ok"}, objectId \in IdpUsers :
             \A apiClaims \in {Null, DbClaimsOf(objectId)} :
               (/\ HasText(username)
                /\ password # ""
                /\ resp'.op = "password"
                /\ passwordToken(username, password, outcome, objectId, apiClaims))
                 => generic]_vars

\* after a password sign-in that issued tokens, another one has failed
C12_Witness ==
  /\ resp.op = "password"
  /\ resp.status = 401
  /\ resp.body.error = "invalid_grant"
  /\ refreshLog # EmptyMap

\* C18: the access token that comes with a refresh token, at issuance and at
\* refresh alike, carries the sub, identity and apps of the claim set stored
\* with that refresh token; a refresh stores with the new refresh token the
\* very claim set that was stored with the presented one, so the refreshed
\* access token carries the claims of the issuance the chain began with.
C18_RefreshFromStoredClaims ==
  [][\A rt \in DOMAIN refreshLog' \ DOMAIN refreshLog :
       LET stored == refreshLog'[rt].payload
           accessToken == resp'.body.access_token
       IN /\ resp'.status = 200
          /\ resp'.body.refresh_token = rt
          /\ accessToken.sub = stored.sub
          /\ accessToken.identity = stored.identity
          /\ accessToken.apps = stored.apps
          /\ accessToken.iat = now \div 1000
          /\ refreshStore'[rt].payload = stored
          /\ resp'.op = "refresh"
               => /\ resp'.key \in DOMAIN refreshLog
                  /\ stored = refreshLog[resp'.key].payload
                  /\ stored = refreshStore[resp'.key].payload]_vars

\* a refresh, later than the sign-in, of a token whose claim set came from
\* the database has answered with the application claims of that sign-in
C18_Witness ==
  /\ resp.op = "refresh"
  /\ resp.status = 200
  /\ resp.body.access_token.apps = DbClaimsOf("oid-1").apps
  /\ resp.body.access_token.apps # DefaultApps
  /\ resp.body.access_token.iat > refreshLog[resp.key].createdAt \div 1000
  /\ refreshLog[resp.body.refresh_token].payload = refreshLog[resp.key].payload

(***************************************************************************)
(* The claim set and the database (SpecClaims).                            *)
(***************************************************************************)
\* the persona assignments of the person are changed in the database
DatastoreChange ==
  /\ \E rows \in PersonaRowStates \ {personaRows} : personaRows' = rows
  /\ resp' = [op |-> "datastore"]
  /\ UNCHANGED <<idpCalls, now, googleService, sessionStore, exchangeStore, refreshStore,
                 signupStore, postOtpStore, resetStartStore, resetPostOtpStore,
                 inflight, signupInflight, sessionLog, codeLog, refreshLog,
                 signupLog, served, stageLog>>

\* passwordToken with the claims read from the database as it is now, or null
\* when the database cannot be reached
PasswordTokenFromDatastore ==
  /\ \E username \in UsernameInputs, password \in PasswordInputs :
       \* the provider and the datastore answer the requests that reach them
       LET reaches == HasText(username) /\ password # ""
       IN \E outcome \in IF reaches THEN PasswordOutcomes ELSE {"ok"},
             objectId \in IdpUsers :
            \E apiClaims \in IF reaches THEN {Null, getClaimsByEmail(personaRows)}
                                       ELSE {Null} :
              passwordToken(username, password, outcome, objectId, apiClaims)
  /\ UNCHANGED idpCalls

NextClaims ==
  \/ Tick(getRefreshTokenTTL)
  \/ DatastoreChange
  \/ PasswordTokenFromDatastore
  \/ RefreshToken

SpecClaims == InitTokens /\ [][NextClaims]_vars

\* the claim sets the Claims Assembler can build now for the user of a stored
\* claim set: from the rows the database holds, or the defaults when the
\* database cannot be reached
FreshClaims(payload) ==
  { buildUserClaims([objectId |-> payload.identity.entra_uuid,
                     email |-> payload.identity.email], apiClaims) :
      apiClaims \in {Null, getClaimsByEmail(personaRows)} }

\* C19: the access token a refresh returns, and the claim set stored with the
\* new refresh token, are a claim set built at the time of the refresh from
\* the rows the database then holds.
C19_RefreshAssemblesFresh ==
  [][(/\ resp'.op = "refresh"
      /\ resp'.status = 200
      /\ refreshLog' # refreshLog)
       => \E fresh \in FreshClaims(refreshLog[resp'.key].payload) :
            LET accessToken == resp'.body.access_token
            IN /\ accessToken.sub = fresh.sub
               /\ accessToken.identity = fresh.identity
               /\ accessToken.apps = fresh.apps
               /\ refreshStore'[resp'.body.refresh_token].payload = fresh]_vars

\* what an identity provider can report: an id_token without oid and sub, or
\* without email, gives the empty string
IdpUserInputs ==
  {[objectId |-> objectId, email |-> email] :
     objectId \in {"oid-1", ""}, email \in {"one@example.com", ""}}

\* the fields the claims helper fills without the database
ClaimsWithoutDatabase(c, idpUser) ==
  /\ DOMAIN c = {"sub", "identity", "apps", "aud"}
  /\ c.sub = idpUser.objectId
  /\ c.identity = [email |-> idpUser.email, status |-> "Active",
                   entra_uuid |-> idpUser.objectId,
                   Person_uuid |-> "8b3d3f9d-03d4-4d0a-8e15-482b35c3850f"]
  /\ c.apps = DefaultApps
  /\ DOMAIN c.apps = {"pulse", "key"}
  /\ \A app \in DOMAIN c.apps : Len(c.apps[app].roles) > 0
  /\ c.aud = <<>>

\* C20: for claims null or undefined, buildUserClaims returns a claim set
\* with sub, the identity block and the default application claims, which
\* are not empty; a sign-in that could not read the database issues a token
\* and stores a claim set with exactly these.
C20_ClaimsFallback ==
  [][/\ DOMAIN refreshLog' # DOMAIN refreshLog
          => \A idpUser \in IdpUserInputs : \A apiClaims \in {Null, Undefined} :
               ClaimsWithoutDatabase(buildUserClaims(idpUser, apiClaims), idpUser)
     /\ \A rt \in DOMAIN refreshLog' \ DOMAIN refreshLog :
          LET stored == refreshLog'[rt].payload
              idpUser == [objectId |-> stored.identity.entra_uuid,
                          email |-> stored.identity.email]
          IN /\ {"sub", "identity", "apps"} \subseteq DOMAIN stored
             /\ DOMAIN stored.apps # {}
             /\ resp'.op = "password"
                  => \/ ClaimsWithoutDatabase(stored, idpUser)
                     \/ stored = buildUserClaims(idpUser,
                                                 getClaimsByEmail(personaRows))
             /\ resp'.body.access_token.apps = stored.apps
             /\ resp'.body.access_token.sub = stored.sub]_vars

\* a password sign-in has answered with the default application claims while
\* the database holds other rows for the user
C20_Witness ==
  /\ resp.op = "password"
  /\ resp.status = 200
  /\ resp.body.access_token.apps = DefaultApps
  /\ resp.body.access_token.sub = "oid-1"
  /\ getClaimsByEmail(personaRows) # Null
  /\ ClaimsWithoutDatabase(refreshLog[resp.body.refresh_token].payload,
                           UserInfoOf("oid-1"))

\* C21: a token issued with claims read from the database has as aud the
\* distinct application names of the user's rows, in the order of their first
\* row, and these are the names that key its apps map.
C21_PerUserAudience ==
  [][\A rt \in DOMAIN refreshLog' \ DOMAIN refreshLog :
       (/\ resp'.op = "password"
        /\ refreshLog'[rt].payload.aud # <<>>)
         => LET accessToken == resp'.body.access_token
            IN /\ accessToken.aud = AppNamesOf(personaRows)
               /\ {accessToken.aud[i] : i \in 1..Len(accessToken.aud)}
                    = DOMAIN accessToken.apps]_vars

(***************************************************************************)
(* Issuance by redirect and by password (SpecIssuance).                    *)
(***************************************************************************)
NextIssuance ==
  \/ Login(SpokePairLoginRequests, MaxSpokeSessions)
  \/ CallbackBegin(SpokePairCallbackRequests)
  \/ CallbackFinish
  \/ PasswordToken

SpecIssuance == InitTokens /\ [][NextIssuance]_vars

\* the claim set stored with the refresh token rt is the default one
StoredDefaults(store, rt, objectId) ==
  /\ rt \in DOMAIN store
  /\ store[rt].payload.sub = objectId
  /\ store[rt].payload.identity.entra_uuid = objectId
  /\ store[rt].payload.apps = DefaultApps

\* C22: a callback whose exchange with the identity provider succeeded, and a
\* password sign-in the identity provider accepted, for which the database
\* gave no claims (no rows, or the lookup or the provisioning threw), answer
\* as a success: the callback redirects with an exchange code, the password
\* sign-in returns 200, and in both a signed token and a refresh token with
\* the default claims are created.
C22_DatastoreFailureIssues ==
  [][/\ \A r \in DOMAIN inflight : \A objectId \in IdpUsers :
          callbackFinish(r, TRUE, TRUE, objectId, Null)
            => /\ resp'.status = 302
               /\ resp'.error = ""
               /\ resp'.location.params.code.id \in DOMAIN exchangeStore'
                                                     \ DOMAIN codeLog
               /\ LET issued == exchangeStore'[resp'.location.params.code.id]
                  IN /\ issued.accessToken.apps = DefaultApps
                     /\ issued.accessToken.sub = objectId
                     /\ issued.refreshToken \notin DOMAIN refreshLog
                     /\ StoredDefaults(refreshStore', issued.refreshToken, objectId)
     /\ \A username \in UsernameInputs : \A objectId \in IdpUsers :
          (/\ HasText(username)
           /\ passwordToken(username, "pw", "ok", objectId, Null))
            => /\ resp'.status = 200
               /\ resp'.body.access_token.apps = DefaultApps
               /\ resp'.body.access_token.sub = objectId
               /\ resp'.body.refresh_token \notin DOMAIN refreshLog
               /\ StoredDefaults(refreshStore', resp'.body.refresh_token, objectId)]_vars

\* both ways of signing in have issued with the default claims: a password
\* sign-in has just done so, and an exchange code holds a token of a callback
\* that did
C22_Witness ==
  /\ resp.op = "password"
  /\ resp.status = 200
  /\ resp.body.access_token.apps = DefaultApps
  /\ \E code \in DOMAIN exchangeStore :
       /\ exchangeStore[code].accessToken.apps = DefaultApps
       /\ StoredDefaults(refreshStore, exchangeStore[code].refreshToken, "oid-1")

(***************************************************************************)
(* The native sign-up and the password reset, stage by stage (SpecNative). *)
(***************************************************************************)
\* req.body.email of the stage endpoints
NativeEmailInputs == {"", "one@example.com", " One@Example.com "}

SignupRestart ==
  /\ \E email \in NativeEmailInputs, outcome \in StartOutcomes :
       signupStart(email, outcome, DatastoreSilent, MaxStarts)
  /\ UNCHANGED idpCalls

\* a behaviour serves the sign-up or the password reset: the first stored
\* token of one closes the other
NativeSignupFlowStart == stageLog.resetStart = EmptyMap /\ SignupRestart
NativeResetFlowStart == signupLog = EmptyMap /\ PasswordResetStart

NextNative ==
  \/ Tick(SIGNUP_TOKEN_TTL_MS)
  \/ NativeSignupFlowStart
  \/ SignupVerifyOtpBegin
  \/ SignupVerifyOtpFinish
  \/ SignupSubmitPasswordBegin
  \/ SignupSubmitPasswordFinish
  \/ NativeResetFlowStart
  \/ PasswordResetVerifyOtpBegin
  \/ PasswordResetVerifyOtpFinish
  \/ PasswordResetSubmitPasswordBegin
  \/ PasswordResetSubmitted
  \/ PasswordResetSignIn

SpecNative == InitTokens /\ [][NextNative]_vars

\* C13: of a sign-up verify-otp that read the token stored by start, a wrong
\* code (the provider refuses the OTP) ends in 401 invalid_grant and leaves
\* the post-OTP store as it was; the correct code (200, or 400
\* credential_required with a token) ends in 200 and the post-OTP store holds
\* for the email the token the provider returned to this request.
C13_VerifyOtpPersists ==
  [][\A r \in DOMAIN signupInflight :
       LET c == signupInflight[r]
       IN /\ signupVerifyOtpFinish(r, "oob")
               => /\ c.continuationToken \in DOMAIN signupLog
                  /\ resp'.status = 401
                  /\ resp'.error = "invalid_grant"
                  /\ postOtpStore' = postOtpStore
          /\ \A outcome \in {"ok", "credential_required"} :
               signupVerifyOtpFinish(r, outcome)
                 => /\ c.continuationToken \in DOMAIN signupLog
                    /\ resp'.status = 200
                    /\ MapHas(postOtpStore', c.email)
                    /\ postOtpStore'[c.email]
                         = [continuationToken |->
                              [kind |-> "post_otp", of |-> c.continuationToken],
                            createdAt |-> now]]_vars

\* start stored a token, a verify-otp with a wrong code was refused, and no
\* post-OTP token is stored for the email
C13_Witness ==
  /\ resp.op = "verify_otp"
  /\ resp.status = 401
  /\ resp.error = "invalid_grant"
  /\ signupLog # EmptyMap
  /\ \A tok \in DOMAIN signupLog : ~MapHas(postOtpStore, signupLog[tok].email)

\* the token start stored last for the email has been handed to a request
LatestStartServed(email) ==
  LET toks == SignupTokensOf(LowerTrimEmail(email))
  IN /\ toks # {}
     /\ Count(served.signup, CHOOSE tok \in toks : \A o \in toks : o <= tok) >= 1

\* the token stored last for the email in a stage store has been handed to a
\* request
LatestStageServed(log, email) ==
  /\ MapHas(log, LowerTrimEmail(email))
  /\ log[LowerTrimEmail(email)].served >= 1

\* C14: once the token of a stage has been handed to a verify-otp or a
\* submit-password, of the sign-up or of the password reset, every further
\* request of that stage for the email returns 401 expired_token and makes no
\* call to the identity provider, until the preceding stage stores a new
\* token.
C14_SingleUse ==
  [][/\ resp'.op \in {"verify_otp", "verify_otp_await"}
          => \A email \in EmailInputs : \A code \in OtpInputs :
               (/\ HasText(email) /\ HasText(code)
                /\ LatestStartServed(email)
                /\ signupVerifyOtpBegin(email, code))
                 => /\ resp'.op = "verify_otp"
                    /\ resp'.status = 401
                    /\ resp'.error = "expired_token"
                    /\ signupInflight' = signupInflight
     /\ resp'.op \in {"reset_verify_otp", "reset_verify_otp_await"}
          => \A email \in EmailInputs : \A code \in OtpInputs :
               (/\ HasText(email) /\ HasText(code)
                /\ LatestStageServed(stageLog.resetStart, email)
                /\ passwordResetVerifyOtpBegin(email, code))
                 => /\ resp'.op = "reset_verify_otp"
                    /\ resp'.status = 401
                    /\ resp'.error = "expired_token"
                    /\ signupInflight' = signupInflight
     /\ resp'.op \in {"submit_password", "submit_password_await"}
          => \A req \in SubmitPasswordRequests :
               (/\ HasText(req.email) /\ req.password # "" /\ HasText(req.role)
                /\ LatestStageServed(stageLog.postOtp, req.email)
                /\ signupSubmitPasswordBegin(req.email, req.password, req.displayName,
                                             req.role))
                 => /\ resp'.op = "submit_password"
                    /\ resp'.status = 401
                    /\ resp'.error = "expired_token"
                    /\ signupInflight' = signupInflight
     /\ resp'.op \in {"reset_submit", "reset_submit_await"}
          => \A email \in EmailInputs : \A new_password \in NewPasswordInputs :
               (/\ HasText(email) /\ new_password # ""
                /\ LatestStageServed(stageLog.resetPostOtp, email)
                /\ passwordResetSubmitPasswordBegin(email, new_password))
                 => /\ resp'.op = "reset_submit"
                    /\ resp'.status = 401
                    /\ resp'.error = "expired_token"
                    /\ signupInflight' = signupInflight]_vars

\* a sign-up verify-otp succeeded, its post-OTP token is stored, and a second
\* verify-otp for the email was refused
C14_Witness ==
  /\ resp.op = "verify_otp"
  /\ resp.status = 401
  /\ resp.error = "expired_token"
  /\ MapHas(postOtpStore, resp.email)
  /\ LatestStartServed(resp.email)
  /\ now - postOtpStore[resp.email].createdAt <= SIGNUP_TOKEN_TTL_MS

\* a token is stored for the email in a stage store, has not been handed to a
\* request and is no older than its lifetime
StageTokenPending(log, email) ==
  /\ MapHas(log, LowerTrimEmail(email))
  /\ log[LowerTrimEmail(email)].served = 0
  /\ now - log[LowerTrimEmail(email)].createdAt <= SIGNUP_TOKEN_TTL_MS

\* start has stored a token for the email that has not been handed to a
\* request and is no older than its lifetime
StartTokenPending(email) ==
  LET toks == SignupTokensOf(LowerTrimEmail(email))
      last == CHOOSE tok \in toks : \A o \in toks : o <= tok
  IN /\ toks # {}
     /\ Count(served.signup, last) = 0
     /\ now - signupLog[last].createdAt <= SIGNUP_TOKEN_TTL_MS

\* C15: a well-formed submit-password, of the sign-up or of the password
\* reset, goes to the identity provider exactly when a verify-otp for the
\* email has succeeded and the token it stored is still pending; otherwise it
\* returns 401 expired_token and calls no provider.  A verify-otp likewise
\* goes on exactly when a start for the email has succeeded and its token is
\* pending.
C15_StageOrder ==
  [][/\ resp'.op \in {"submit_password", "submit_password_await"}
          => \A req \in SubmitPasswordRequests :
               (/\ HasText(req.email) /\ req.password # "" /\ HasText(req.role)
                /\ signupSubmitPasswordBegin(req.email, req.password, req.displayName,
                                             req.role))
                 => IF StageTokenPending(stageLog.postOtp, req.email)
                      THEN /\ resp'.op = "submit_password_await"
                           /\ signupInflight' # signupInflight
                      ELSE /\ resp'.op = "submit_password"
                           /\ resp'.status = 401
                           /\ resp'.error = "expired_token"
                           /\ signupInflight' = signupInflight
     /\ resp'.op \in {"reset_submit", "reset_submit_await"}
          => \A email \in EmailInputs : \A new_password \in NewPasswordInputs :
               (/\ HasText(email) /\ new_password # ""
                /\ passwordResetSubmitPasswordBegin(email, new_password))
                 => IF StageTokenPending(stageLog.resetPostOtp, email)
                      THEN /\ resp'.op = "reset_submit_await"
                           /\ signupInflight' # signupInflight
                      ELSE /\ resp'.op = "reset_submit"
                           /\ resp'.status = 401
                           /\ resp'.error = "expired_token"
                           /\ signupInflight' = signupInflight
     /\ resp'.op \in {"reset_verify_otp", "reset_verify_otp_await"}
          => \A email \in EmailInputs : \A code \in OtpInputs :
               (/\ HasText(email) /\ HasText(code)
                /\ passwordResetVerifyOtpBegin(email, code))
                 => IF StageTokenPending(stageLog.resetStart, email)
                      THEN /\ resp'.op = "reset_verify_otp_await"
                           /\ signupInflight' # signupInflight
                      ELSE /\ resp'.op = "reset_verify_otp"
                           /\ resp'.status = 401
                           /\ resp'.error = "expired_token"
                           /\ signupInflight' = signupInflight
     /\ resp'.op \in {"verify_otp", "verify_otp_await"}
          => \A email \in EmailInputs : \A code \in OtpInputs :
               (/\ HasText(email) /\ HasText(code)
                /\ signupVerifyOtpBegin(email, code))
                 => IF StartTokenPending(email)
                      THEN /\ resp'.op = "verify_otp_await"
                           /\ signupInflight' # signupInflight
                      ELSE /\ resp'.op = "verify_otp"
                           /\ resp'.status = 401
                           /\ resp'.error = "expired_token"
                           /\ signupInflight' = signupInflight]_vars

\* a sign-up has been started and no verify-otp has succeeded: a
\* submit-password for the email was refused
C15_Witness ==
  /\ resp.op = "submit_password"
  /\ resp.status = 401
  /\ resp.error = "expired_token"
  /\ StartTokenPending(resp.email)
  /\ stageLog.postOtp = EmptyMap

\* the normalised forms of the emails the requests carry
NormalisedEmails == {"not-an-email", "one@example.com"}

\* the token start stored last for the email
NewestStartToken(email) ==
  CHOOSE tok \in SignupTokensOf(email) : \A o \in SignupTokensOf(email) : o <= tok

\* C16: the sign-up start store is keyed by the trimmed, lower-cased email
\* and so holds at most one token for it; a start for an email whose token is
\* still stored puts the new token in the place of the old one, and the
\* verify-otp that follows takes the newest token, and no other, to the
\* identity provider.
C16_StartOverwrites ==
  [][/\ DOMAIN signupStore' \subseteq NormalisedEmails
     /\ \A email \in NativeEmailInputs :
          (/\ HasText(email)
           /\ resp'.op = "signup_start"
           /\ signupStart(email, "ok", DatastoreSilent, MaxStarts))
            => LET key == IF email = "" THEN "" ELSE "one@example.com"
                   new == Cardinality(DOMAIN signupLog) + 1
               IN /\ DOMAIN signupStore' = DOMAIN signupStore \cup {key}
                  /\ signupStore'[key].continuationToken = new
                  /\ new \notin DOMAIN signupLog
                  /\ signupStore'[key].createdAt = now
     /\ \A email \in EmailInputs : \A code \in OtpInputs :
          (/\ signupInflight' # signupInflight
           /\ signupVerifyOtpBegin(email, code))
            => \E r \in DOMAIN signupInflight' \ DOMAIN signupInflight :
                 /\ signupInflight'[r].email \in NormalisedEmails
                 /\ signupInflight'[r].continuationToken
                      = NewestStartToken(signupInflight'[r].email)
                 /\ ~MapHas(signupStore', signupInflight'[r].email)]_vars

\* start was called twice for one email, written in two ways, and the
\* verify-otp that followed is at the identity provider with the second token
C16_Witness ==
  /\ resp.op = "verify_otp_await"
  /\ Cardinality(SignupTokensOf(resp.email)) = 2
  /\ Count(served.signup, 1) = 0
  /\ \E r \in DOMAIN signupInflight :
        /\ signupInflight[r].op = "verify_otp"
        /\ signupInflight[r].continuationToken = 2

\* the messages by which the identity provider says that the password it has
\* just accepted is not yet the one it signs in with
PasswordNotPropagated(message) ==
  \E i \in 1..Len(message) :
    message[i] \in {"expired", "Expired", "password_expired",
                    "user_password_expired", "AADSTS50055", "aadsts50055"}

\* C17: after the new password was accepted, a request calls the sign-in at
\* most twice; the second call is made exactly when the first one threw an
\* error carrying the not-yet-propagated signal; a sign-in that has finally
\* failed is answered with 200 and sign_in_after_reset_failed = true, and no
\* access token or refresh token is created.
C17_OneRetry ==
  [][\A r \in DOMAIN signupInflight :
       (/\ signupInflight[r].op = "reset_sign_in"
        /\ \/ r \notin DOMAIN signupInflight'
           \/ signupInflight'[r] # signupInflight[r])
         => LET c == signupInflight[r]
                again == r \in DOMAIN signupInflight'
                failed == "sign_in_after_reset_failed" \in DOMAIN resp'.body
            IN /\ c.attempts \in {0, 1}
               /\ Len(c.errors) = c.attempts
               /\ c.attempts = 1 => PasswordNotPropagated(c.errors[1])
               /\ again => /\ c.attempts = 0
                           /\ signupInflight'[r].attempts = 1
                           /\ Len(signupInflight'[r].errors) = 1
                           /\ PasswordNotPropagated(signupInflight'[r].errors[1])
                           /\ resp'.op = "reset_sign_in_await"
                           /\ refreshStore' = refreshStore
                           /\ refreshLog' = refreshLog
               /\ ~again => /\ resp'.op = "reset_submit"
                            /\ resp'.status = 200
                            /\ resp'.signIns = c.attempts + 1
               /\ (~again /\ failed)
                    => /\ resp'.body.sign_in_after_reset_failed
                       /\ "access_token" \notin DOMAIN resp'.body
                       /\ "refresh_token" \notin DOMAIN resp'.body
                       /\ c.attempts = 0
                             => ~PasswordNotPropagated(resp'.body.sign_in_error)
                       /\ refreshStore' = refreshStore
                       /\ refreshLog' = refreshLog
               /\ (~again /\ ~failed)
                    => /\ "access_token" \in DOMAIN resp'.body
                       /\ resp'.body.refresh_token \in DOMAIN refreshStore'
                                                        \ DOMAIN refreshLog]_vars

\* the sign-in was retried once, failed again, and the caller was told to
\* sign in with the new password
C17_Witness ==
  /\ resp.op = "reset_submit"
  /\ resp.status = 200
  /\ resp.signIns = 2
  /\ resp.body.sign_in_after_reset_failed
  /\ refreshLog = EmptyMap

\* C23: from the password step onward submit-password answers as complete
\* does: for every answer of the identity provider and of the database, the
\* status and error of submit-password are those complete gives, and a token
\* and a refresh token are created exactly when complete creates them.
C23_SplitMatchesComplete ==
  [][\A r \in DOMAIN signupInflight : \A outcome \in SubmitPasswordOutcomes :
       \A objectId \in IdpUsers : \A tokenEmail \in {"", "one@example.com"} :
         \A apiClaims \in {Null, DbClaimsOf(objectId)} :
           signupSubmitPasswordFinish(r, outcome, objectId, tokenEmail, apiClaims)
             => LET complete == signupCompleteAnswer(outcome, apiClaims)
                IN /\ resp'.status = complete.status
                   /\ resp'.error = complete.error
                   /\ (refreshLog' # refreshLog) <=> (complete.status = 200)]_vars

\* the messages of the errors nativeAuthSignIn throws whose text is not its
\* own: the message of a failed fetch and the error_description of the
\* identity provider
UpstreamMessages ==
  { nativeAuthSignIn("one@example.com", "pw", outcome, "oid-1").message :
      outcome \in {"network", "initiate", "token", "password_expired",
                   "token_expired"} }

\* C25: no response of the sign-up and password-reset endpoints carries the
\* message of an error of the identity provider or of the request to it.
C25_NoUpstreamMessage ==
  ("body" \in DOMAIN resp /\ "sign_in_error" \in DOMAIN resp.body)
    => resp.body.sign_in_error \notin UpstreamMessages

(***************************************************************************)
(* The sweeps as timers (SpecSweeps).  setInterval runs each sweep every   *)
(* 5 minutes for as long as the process lives: a sweep that has something  *)
(* to remove is not postponed for ever.                                    *)
(***************************************************************************)
SpecSweeps ==
  /\ Spec
  /\ WF_vars(cleanupExpiredSessions)
  /\ WF_vars(cleanupExpiredTokens)

\* the keys a store can hold: a callback turns one session into one exchange code
SessionKeys == 1..MaxIssued
CodeKeys == 1..MaxIssued
TokenKeys == 1..MaxRefresh

\* the entry under the key is older than the TTL of its store
Outlived(store, key, ttl) ==
  MapHas(store, key) /\ now - store[key].createdAt > ttl

\* C26: with the sweeps running, a session, an exchange code, a refresh token
\* or a sign-up continuation token that has outlived its TTL does not stay in
\* its store for ever, whether a request consumes it or not
C26_ExpiredIsSwept ==
  /\ \A state \in SessionKeys :
       Outlived(sessionStore, state, SESSION_EXPIRATION_MS)
         ~> ~Outlived(sessionStore, state, SESSION_EXPIRATION_MS)
  /\ \A code \in CodeKeys :
       Outlived(exchangeStore, code, EXCHANGE_CODE_TTL_MS)
         ~> ~Outlived(exchangeStore, code, EXCHANGE_CODE_TTL_MS)
  /\ \A token \in TokenKeys :
       Outlived(refreshStore, token, getRefreshTokenTTL)
         ~> ~Outlived(refreshStore, token, getRefreshTokenTTL)
  /\ \A email \in NormalisedEmails :
       Outlived(signupStore, email, SIGNUP_TOKEN_TTL_MS)
         ~> ~Outlived(signupStore, email, SIGNUP_TOKEN_TTL_MS)

\* a sweep has just removed a refresh token that no request ever presented
C26_Witness ==
  /\ resp.op = "cleanupExpiredTokens"
  /\ \E token \in DOMAIN refreshLog :
       /\ Count(served.refresh, token) = 0
       /\ now - refreshLog[token].createdAt > getRefreshTokenTTL
       /\ ~MapHas(refreshStore, token)

(***************************************************************************)
(* The native sign-up, staged and in one request (SpecSignup).             *)
(***************************************************************************)
NextSignup ==
  \/ Tick(SIGNUP_TOKEN_TTL_MS)
  \/ SignupRestart
  \/ SignupVerifyOtpBegin
  \/ SignupVerifyOtpFinish
  \/ SignupSubmitPasswordBegin
  \/ SignupSubmitPasswordFinish
  \/ SignupCompleteBegin
  \/ SignupCompleteFinish

SpecSignup == InitTokens /\ [][NextSignup]_vars

\* C27: verify-otp answers 200 and stores a post-OTP token when the identity
\* provider answers 400 credential_required with a continuation token;
\* submit-password and complete go on after 400 attributes_required with a
\* token exactly as after 200; the same two errors without a token end the
\* request with 401 invalid_grant, nothing stored and nothing issued
C27_ExpectedErrorIsSuccess ==
  [][\A r \in DOMAIN signupInflight \ DOMAIN signupInflight' :
       LET c == signupInflight[r] IN
       /\ (c.op = "verify_otp" /\ signupVerifyOtpFinish(r, "credential_required"))
            => /\ resp'.status = 200
               /\ MapHas(postOtpStore', c.email)
               /\ postOtpStore'[c.email].createdAt = now
               /\ postOtpStore'[c.email].continuationToken.of = c.continuationToken
       /\ (c.op = "verify_otp"
             /\ signupVerifyOtpFinish(r, "credential_required_no_token"))
            => /\ resp'.status = 401
               /\ resp'.error = "invalid_grant"
               /\ postOtpStore' = postOtpStore
       /\ \A objectId \in IdpUsers, tokenEmail \in {"", "one@example.com"} :
          \A apiClaims \in {Null, DbClaimsOf(objectId)} :
            /\ (c.op = "submit_password"
                  /\ signupSubmitPasswordFinish(r, "attributes_required", objectId,
                                                tokenEmail, apiClaims))
                 => /\ resp'.status =
                         signupSubmitPasswordAnswer("ok", apiClaims).status
                    /\ resp'.error =
                         signupSubmitPasswordAnswer("ok", apiClaims).error
                    /\ resp'.status = 200
                         => resp'.body.refresh_token \in DOMAIN refreshStore'
                                                        \ DOMAIN refreshStore
            /\ (c.op = "submit_password"
                  /\ signupSubmitPasswordFinish(r, "attributes_required_no_token",
                                                objectId, tokenEmail, apiClaims))
                 => /\ resp'.status = 401
                    /\ resp'.error = "invalid_grant"
                    /\ refreshStore' = refreshStore
            /\ (c.op = "complete"
                  /\ signupCompleteFinish(r, "attributes_required", objectId,
                                          tokenEmail, apiClaims))
                 => /\ resp'.status = 200
                    /\ resp'.body.refresh_token \in DOMAIN refreshStore'
                                                   \ DOMAIN refreshStore
            /\ (c.op = "complete"
                  /\ signupCompleteFinish(r, "attributes_required_no_token",
                                          objectId, tokenEmail, apiClaims))
                 => /\ resp'.status = 401
                    /\ resp'.error = "invalid_grant"
                    /\ refreshStore' = refreshStore]_vars

\* a submit-password whose password step was answered 400 attributes_required
\* with a token has ended 200 with a refresh token
C27_Witness ==
  /\ resp.op = "submit_password"
  /\ "idp" \in DOMAIN resp
  /\ resp.idp = "attributes_required"
  /\ resp.status = 200
  /\ resp.body.refresh_token \in DOMAIN refreshStore

\* C28: once a start request has stored a new continuation token for an
\* email, submit-password finds no post-OTP token for that email: the read it
\* begins with returns null (401 expired_token)
C28_RestartInvalidates ==
  [][\A token \in DOMAIN signupLog' \ DOMAIN signupLog :
       stageTokenMissing(
         getPostOtpContinuationToken(postOtpStore', signupLog'[token].email,
                                     now').value)]_vars

(***************************************************************************)
(* The calls to the identity providers, request by request (SpecIdp).      *)
(* idpCalls is recorded by the actions of this specification; the others   *)
(* leave it alone.                                                         *)
(***************************************************************************)
\* callback: acquireTokenByCode or getTokens, then getUserInfo
callbackCalls(tokenOk) ==
  IF tokenOk THEN <<"code_exchange", "profile_fetch">> ELSE <<"code_exchange">>

\* a sign-in that sends the token request again when it has failed
nativeAuthSignInCallsRetried(outcome) ==
  CASE outcome \in {"network", "initiate", "redirect", "initiate_no_token"} ->
         <<"initiate">>
    [] outcome = "challenge" -> <<"initiate", "challenge">>
    [] outcome \in {"token", "token_error"} ->
         <<"initiate", "challenge", "token", "token">>
    [] OTHER -> <<"initiate", "challenge", "token">>

\* nativeAuthSignIn: the requests it has sent when it returns or throws
nativeAuthSignInCalls(outcome) ==
  CASE outcome \in {"network", "initiate", "redirect", "initiate_no_token"} ->
         <<"initiate">>
    [] outcome = "challenge" -> <<"initiate", "challenge">>
    [] OTHER -> <<"initiate", "challenge", "token">>

\* passwordToken: nativeAuthSignIn is called once the body has passed the checks
passwordTokenCalls(username, password, outcome) ==
  IF ~HasText(username) \/ password = "" \/ ~ciamConfigured
    THEN <<>>
    ELSE nativeAuthSignInCalls(outcome)

\* signupStart: signup/start, then signup/challenge
signupStartCalls(email, outcome) ==
  IF ~HasText(email) \/ ~IsEmailFormat(LowerTrimEmail(email)) \/ ~ciamConfigured
    THEN <<>>
  ELSE IF outcome \in {"exists", "throw"} THEN <<"signup_start">>
  ELSE <<"signup_start", "signup_challenge">>

\* signupVerifyOtp: signup/continue (oob)
signupVerifyOtpCalls == <<"continue_oob">>

\* signupSubmitPassword: signup/continue (password), signup/continue
\* (attributes), oauth2/token
signupSubmitPasswordCalls(outcome) ==
  IF passwordStep(continuePasswordRes(outcome)).status # 200
    THEN <<"continue_password">>
  ELSE IF outcome \in {"attributes", "no_token"}
    THEN <<"continue_password", "continue_attributes">>
  ELSE <<"continue_password", "continue_attributes", "token">>

\* signupComplete: signup/continue (oob), then the steps of submit-password
signupCompleteCalls(outcome) ==
  IF outcome = "oob" THEN <<"continue_oob">>
  ELSE <<"continue_oob">> \o signupSubmitPasswordCalls(outcome)

\* passwordResetStart: resetpassword/start, then resetpassword/challenge
passwordResetStartCalls(email, outcome) ==
  IF ~HasText(email) \/ ~IsEmailFormat(LowerTrimEmail(email)) \/ ~ciamConfigured
    THEN <<>>
  ELSE IF outcome \in {"user_not_found", "throw"} THEN <<"reset_start">>
  ELSE <<"reset_start", "reset_challenge">>

\* passwordResetVerifyOtp: resetpassword/continue
passwordResetVerifyOtpCalls == <<"reset_continue">>

\* passwordResetSubmitPassword: resetpassword/submit
passwordResetSubmittedCalls == <<"reset_submit">>

IdpCallbackFinish ==
  \E r \in DOMAIN inflight, a \in IdpAnswers :
    /\ callbackFinish(r, a.tokenOk, a.userInfoOk, a.objectId, a.apiClaims)
    /\ idpCalls' = callbackCalls(a.tokenOk)

IdpPasswordToken ==
  \E username \in UsernameInputs, password \in PasswordInputs,
     outcome \in PasswordOutcomes, objectId \in IdpUsers :
    \E apiClaims \in {Null, DbClaimsOf(objectId)} :
      /\ passwordToken(username, password, outcome, objectId, apiClaims)
      /\ idpCalls' = passwordTokenCalls(username, password, outcome)

IdpSignupStart ==
  \E email \in NativeEmailInputs, outcome \in StartOutcomes :
    /\ signupStart(email, outcome, DatastoreSilent, MaxSignups)
    /\ idpCalls' = signupStartCalls(email, outcome)

IdpSignupVerifyOtpFinish ==
  \E r \in DOMAIN signupInflight, outcome \in VerifyOutcomes :
    /\ signupVerifyOtpFinish(r, outcome)
    /\ idpCalls' = signupVerifyOtpCalls

IdpSignupSubmitPasswordFinish ==
  \E r \in DOMAIN signupInflight, outcome \in SubmitPasswordOutcomes,
     objectId \in IdpUsers :
    \E apiClaims \in {Null, DbClaimsOf(objectId)} :
      /\ signupSubmitPasswordFinish(r, outcome, objectId, "", apiClaims)
      /\ idpCalls' = signupSubmitPasswordCalls(outcome)

IdpSignupCompleteFinish ==
  \E r \in DOMAIN signupInflight, outcome \in CompleteOutcomes,
     objectId \in IdpUsers :
    \E apiClaims \in {Null, DbClaimsOf(objectId)} :
      /\ signupCompleteFinish(r, outcome, objectId, "", apiClaims)
      /\ idpCalls' = signupCompleteCalls(outcome)

IdpPasswordResetStart ==
  \E email \in NativeEmailInputs, outcome \in ResetStartOutcomes :
    /\ passwordResetStart(email, outcome)
    /\ idpCalls' = passwordResetStartCalls(email, outcome)

IdpPasswordResetVerifyOtpFinish ==
  \E r \in DOMAIN signupInflight, outcome \in ResetVerifyOutcomes :
    /\ passwordResetVerifyOtpFinish(r, outcome)
    /\ idpCalls' = passwordResetVerifyOtpCalls

IdpPasswordResetSubmitted ==
  \E r \in DOMAIN signupInflight, outcome \in ResetSubmitOutcomes :
    /\ passwordResetSubmitted(r, outcome)
    /\ idpCalls' = passwordResetSubmittedCalls

\* one call of nativeAuthSignIn after the reset: the first, or the one retry
IdpPasswordResetSignIn ==
  \E r \in DOMAIN signupInflight, outcome \in PasswordOutcomes,
     objectId \in IdpUsers :
    \E apiClaims \in {Null, DbClaimsOf(objectId)} :
      /\ passwordResetSignIn(r, outcome, objectId, apiClaims)
      /\ idpCalls' = nativeAuthSignInCalls(outcome)

\* a behaviour serves one of the redirect sign-in, the password sign-in, the
\* sign-up and the password reset
IdpRedirectFlow ==
  /\ signupLog = EmptyMap /\ stageLog.resetStart = EmptyMap
  /\ refreshLog = EmptyMap
  /\ Login(SpokeLoginRequests, MaxIssued)

IdpPasswordFlow ==
  /\ sessionLog = EmptyMap /\ signupLog = EmptyMap
  /\ stageLog.resetStart = EmptyMap
  /\ IdpPasswordToken

IdpSignupFlow ==
  /\ sessionLog = EmptyMap /\ stageLog.resetStart = EmptyMap
  /\ refreshLog = EmptyMap \/ signupLog # EmptyMap
  /\ IdpSignupStart

IdpResetFlow ==
  /\ sessionLog = EmptyMap /\ signupLog = EmptyMap
  /\ refreshLog = EmptyMap \/ stageLog.resetStart # EmptyMap
  /\ IdpPasswordResetStart

NextIdp ==
  \/ IdpRedirectFlow
  \/ CallbackBegin(BrowserCallbackRequests)
  \/ IdpCallbackFinish
  \/ IdpPasswordFlow
  \/ IdpSignupFlow
  \/ SignupVerifyOtpBegin
  \/ IdpSignupVerifyOtpFinish
  \/ SignupSubmitPasswordBegin
  \/ IdpSignupSubmitPasswordFinish
  \/ SignupCompleteBegin
  \/ IdpSignupCompleteFinish
  \/ IdpResetFlow
  \/ PasswordResetVerifyOtpBegin
  \/ IdpPasswordResetVerifyOtpFinish
  \/ PasswordResetSubmitPasswordBegin
  \/ IdpPasswordResetSubmitted
  \/ IdpPasswordResetSignIn

SpecIdp == InitTokens /\ [][NextIdp]_vars

\* C29: a request sends each identity-provider step at most once: no step
\* occurs twice among the calls of a callback, of a password sign-in, of a
\* sign-up or reset stage, or of one nativeAuthSignIn after a reset, and a
\* reset calls nativeAuthSignIn at most twice
C29_NoStepTwice ==
  /\ \A i, j \in 1..Len(idpCalls) : idpCalls[i] = idpCalls[j] => i = j
  /\ ("signIns" \in DOMAIN resp) => resp.signIns <= 2

\* a password sign-in has gone through initiate, challenge and token
C29_Witness ==
  /\ resp.op = "password"
  /\ resp.status = 200
  /\ idpCalls = <<"initiate", "challenge", "token">>

\* C30: a sweep changes the answer of no consume: for every key and every
\* client, what getSession, consumeExchangeCode, consumeRefreshToken and
\* getSignupContinuationToken return right after a sweep is what they would
\* have returned right before it, so the entries a sweep removes are entries
\* a consume rejects
C30_SweepKeepsAnswers ==
  [][resp'.op \in {"cleanupExpiredSessions", "cleanupExpiredTokens"}
       => /\ \A state \in DOMAIN sessionLog :
               getSession(sessionStore', state, now').session
                 = getSession(sessionStore, state, now).session
          /\ \A code \in DOMAIN codeLog : \A clientId \in ClientIdInputs :
               consumeExchangeCode(exchangeStore', code, clientId, now').value
                 = consumeExchangeCode(exchangeStore, code, clientId, now).value
          /\ \A token \in DOMAIN refreshLog : \A rotate \in BOOLEAN :
               consumeRefreshToken(refreshStore', token, rotate, now').value
                 = consumeRefreshToken(refreshStore, token, rotate, now).value
          /\ \A email \in NormalisedEmails :
               getSignupContinuationToken(signupStore', email, now').value
                 = getSignupContinuationToken(signupStore, email, now).value]_vars

\* a sweep has removed an exchange code that no request has presented, and
\* left the unexpired refresh token issued with it
C30_Witness ==
  /\ resp.op = "cleanupExpiredTokens"
  /\ \E code \in DOMAIN codeLog :
       /\ Count(served.exchange, code) = 0
       /\ ~MapHas(exchangeStore, code)
       /\ MapHas(refreshStore, codeLog[code].refreshToken)

\* C31: the code exchange of every callback suspended at an identity provider
\* carries the code verifier of the session the callback consumed
C31_VerifierSent ==
  \A r \in DOMAIN inflight :
    inflight[r].idp.codeVerifier = inflight[r].sessionData.codeVerifier

(***************************************************************************)
(* Sign-up start and the datastore (SpecStart).                            *)
(***************************************************************************)
SignupStartProvisioned ==
  /\ \E email \in NativeEmailInputs, outcome \in StartOutcomes :
       \E db \in DatastoreReplies : signupStart(email, outcome, db, MaxStarts)
  /\ UNCHANGED idpCalls

NextStart ==
  \/ Tick(SIGNUP_TOKEN_TTL_MS)
  \/ SignupStartProvisioned

SpecStart == InitTokens /\ [][NextStart]_vars

\* C32: a start whose calls to the identity provider succeeded answers 200
\* and stores the new token for the email at the current time, whatever the
\* datastore answered to the prospect, journey and person operations: a row,
\* nothing or an error
C32_DatastoreBestEffort ==
  [][\A email \in NativeEmailInputs :
       \A db \in {r.datastore : r \in {r \in {resp'} : "datastore" \in DOMAIN r}} :
       (/\ HasText(email)
        /\ db \in DatastoreReplies
        /\ signupStart(email, "ok", db, MaxStarts))
         => LET key == LowerTrimEmail(email)
                new == Cardinality(DOMAIN signupLog) + 1
            IN /\ resp'.status = 200
               /\ resp'.error = ""
               /\ signupStore' =
                    storeSignupContinuationToken(signupStore, key, new, now)
               /\ DOMAIN signupStore' = DOMAIN signupStore \cup {key}
               /\ signupStore'[key] = [continuationToken |-> new, createdAt |-> now]]_vars

\* a start has answered 200 although the datastore threw on the prospect
\* lookup and on the person lookup, and its token is the one stored
C32_Witness ==
  /\ resp.op = "signup_start"
  /\ resp.status = 200
  /\ resp.datastore.prospect = "throw"
  /\ resp.datastore.person = "throw"
  /\ resp.journey_status = "OTP_SENT"
  /\ \E key \in DOMAIN signupStore :
       signupStore[key].continuationToken = Cardinality(DOMAIN signupLog)

(***************************************************************************)
(* What a refused exchange leaves behind (SpecTokens).                     *)
(***************************************************************************)
\* C33: an exchange that presents a stored code under a client_id other than
\* the recorded one returns 400 invalid_grant and leaves the code out of the
\* store; a code that has left the store never comes back, and every exchange
\* that presents it afterwards, the one with the recorded client_id included,
\* returns 400 invalid_grant without finding it.
C33_RefusedCodeIsSpent ==
  [][\A c \in DOMAIN codeLog :
       /\ MapHas(exchangeStore', c) => MapHas(exchangeStore, c)
       /\ \A client_id \in PresentedClientIds :
            /\ (/\ MapHas(exchangeStore, c)
                /\ client_id # ClientOfCode(c)
                /\ exchangeToken(c, client_id))
                 => /\ resp'.status = 400
                    /\ resp'.error = "invalid_grant"
                    /\ ~MapHas(exchangeStore', c)
            /\ (/\ ~MapHas(exchangeStore, c)
                /\ exchangeToken(c, client_id))
                 => /\ resp'.status = 400
                    /\ resp'.error = "invalid_grant"
                    /\ ~resp'.hit
                    /\ served' = served]_vars

\* a code that was never served and is no older than its lifetime has been
\* presented and not found: an exchange under another client_id had spent it
C33_Witness ==
  /\ resp.op = "exchange"
  /\ resp.status = 400
  /\ resp.error = "invalid_grant"
  /\ ~resp.hit
  /\ resp.key \in DOMAIN codeLog
  /\ Count(served.exchange, resp.key) = 0
  /\ now - codeLog[resp.key].createdAt <= EXCHANGE_CODE_TTL_MS

(***************************************************************************)
(* Stage calls that fail after reading their token (SpecStages).           *)
(***************************************************************************)
\* complete belongs to the sign-up
NativeSignupComplete == stageLog.resetStart = EmptyMap /\ SignupCompleteBegin

NextStages ==
  \/ NativeSignupFlowStart
  \/ SignupVerifyOtpBegin
  \/ SignupVerifyOtpFinish
  \/ SignupSubmitPasswordBegin
  \/ SignupSubmitPasswordFinish
  \/ NativeSignupComplete
  \/ SignupCompleteFinish
  \/ NativeResetFlowStart
  \/ PasswordResetVerifyOtpBegin
  \/ PasswordResetVerifyOtpFinish
  \/ PasswordResetSubmitPasswordBegin
  \/ PasswordResetSubmitted
  \/ PasswordResetSignIn

SpecStages == InitTokens /\ [][NextStages]_vars

\* the stage requests that read a token before they go to the identity
\* provider
StageOps == {"verify_otp", "submit_password", "complete", "reset_verify_otp",
             "reset_submit"}

\* the store a stage request read still holds, for the email of the request,
\* the token the request took
StageTokenHeld(c, startStore, postStore, resetStore, resetPostStore) ==
  LET store == CASE c.op \in {"verify_otp", "complete"} -> startStore
                 [] c.op = "submit_password" -> postStore
                 [] c.op = "reset_verify_otp" -> resetStore
                 [] OTHER -> resetPostStore
  IN /\ MapHas(store, c.email)
     /\ store[c.email].continuationToken = c.continuationToken

\* C34: a stage request that took its token and then ends without success
\* (a wrong code, a password the provider rejects, an error) puts nothing
\* back: the four token stores are as they were before it ended and the
\* store it read does not hold the token it took; and a stage request for an
\* email whose store holds no token returns 401 expired_token and goes to no
\* provider, whatever the code or the password it carries.
C34_FailedStageSpendsToken ==
  [][/\ \A r \in DOMAIN signupInflight \ DOMAIN signupInflight' :
          (signupInflight[r].op \in StageOps /\ resp'.status # 200)
            => /\ signupStore' = signupStore
               /\ postOtpStore' = postOtpStore
               /\ resetStartStore' = resetStartStore
               /\ resetPostOtpStore' = resetPostOtpStore
               /\ ~StageTokenHeld(signupInflight[r], signupStore', postOtpStore',
                                  resetStartStore', resetPostOtpStore')
     /\ \A email \in {"one@example.com", " One@Example.com "} :
          LET key == LowerTrimEmail(email)
              asked(op, await) == resp'.op \in {op, await}
              refused(op) == /\ resp'.op = op
                             /\ resp'.status = 401
                             /\ resp'.error = "expired_token"
                             /\ signupInflight' = signupInflight
          IN /\ (asked("verify_otp", "verify_otp_await") /\ ~MapHas(signupStore, key)
                   /\ signupVerifyOtpBegin(email, "123456")) => refused("verify_otp")
             /\ (asked("complete", "complete_await") /\ ~MapHas(signupStore, key)
                   /\ signupCompleteBegin(email, "123456", "pw", "One", "Member"))
                  => refused("complete")
             /\ (asked("submit_password", "submit_password_await") /\ ~MapHas(postOtpStore, key)
                   /\ signupSubmitPasswordBegin(email, "pw", "One", "Member"))
                  => refused("submit_password")
             /\ (asked("reset_verify_otp", "reset_verify_otp_await") /\ ~MapHas(resetStartStore, key)
                   /\ passwordResetVerifyOtpBegin(email, "123456"))
                  => refused("reset_verify_otp")
             /\ (asked("reset_submit", "reset_submit_await") /\ ~MapHas(resetPostOtpStore, key)
                   /\ passwordResetSubmitPasswordBegin(email, "new-pw"))
                  => refused("reset_submit")]_vars

\* a sign-up submit-password with a password the provider rejected has ended
\* and the same request, repeated, was refused: the post-OTP token of the
\* email was handed out once, no request is in flight and no newer token was
\* stored
C34_Witness ==
  /\ resp.op = "submit_password"
  /\ resp.status = 401
  /\ resp.error = "expired_token"
  /\ ~resp.hit
  /\ signupInflight = EmptyMap
  /\ MapHas(stageLog.postOtp, resp.email)
  /\ stageLog.postOtp[resp.email].served = 1
  /\ now - stageLog.postOtp[resp.email].createdAt <= SIGNUP_TOKEN_TTL_MS
  /\ refreshLog = EmptyMap

(***************************************************************************)
(* One browser that logs in several times (SpecBrowser).                   *)
(***************************************************************************)
\* the logins of the browser: a spoke app under either provider
BrowserLoginRequests ==
  { LoginRequest("app1", <<"https://app1/cb">>, ""),
    LoginRequest("app2", <<"https://app2/cb">>, "google") }

\* the auth_state cookie the browser holds: res.cookie('auth_state', state)
\* of the last login that stored a session replaced the one before it
\* (0: no login yet)
BrowserCookie == Cardinality(DOMAIN sessionLog)

\* the browser returns from an identity provider with the state of one of
\* its logins and sends the cookie it holds, or none once the cookie has
\* lapsed
BrowserCallback ==
  /\ \E s \in 1..MaxBrowserLogins, cookie \in {BrowserCookie, 0} :
       /\ s \in DOMAIN sessionLog
       /\ callbackBegin("", "authcode", s, "", cookie)
  /\ UNCHANGED idpCalls

NextBrowser ==
  \/ Tick(SESSION_EXPIRATION_MS)
  \/ Login(BrowserLoginRequests, MaxBrowserLogins)
  \/ BrowserCallback
  \/ CallbackFinish
  \/ cleanupExpiredSessions

SpecBrowser == Init /\ [][NextBrowser]_vars

\* C35: every login that stores a session puts a state no login used before
\* in the auth_state cookie.  Once the browser has logged in again, a
\* callback for the state of an earlier login is refused with 400 'Invalid
\* state parameter' and reaches neither the session store nor an identity
\* provider; the only state a callback is served a session for is the one in
\* the cookie, and a session leaves the store only when it is served or when
\* it is older than its lifetime.
C35_LastLoginWins ==
  [][/\ (resp'.op = "login" /\ sessionLog' # sessionLog)
          => /\ resp'.setCookie = BrowserCookie'
             /\ BrowserCookie' \notin DOMAIN sessionLog
     /\ \A s1 \in DOMAIN sessionLog : \A cookie \in {BrowserCookie, 0} :
          (/\ s1 # BrowserCookie
           /\ resp'.op = "callback"
           /\ callbackBegin("", "authcode", s1, "", cookie))
            => /\ resp'.status = 400
               /\ resp'.error = "Invalid state parameter"
               /\ sessionStore' = sessionStore
               /\ inflight' = inflight
     /\ \A s \in DOMAIN sessionLog :
          /\ Count(served'.session, s) > Count(served.session, s)
               => s = BrowserCookie
          /\ (MapHas(sessionStore, s) /\ ~MapHas(sessionStore', s))
               => \/ Count(served'.session, s) > Count(served.session, s)
                  \/ now - sessionStore[s].createdAt > SESSION_EXPIRATION_MS]_vars

\* the browser logged in twice; the callback for the second state was served
\* its session, and the callback for the first has been refused while the
\* session of the first login is still stored and not older than its lifetime
C35_Witness ==
  /\ resp.op = "callback"
  /\ resp.status = 400
  /\ resp.error = "Invalid state parameter"
  /\ resp.state < BrowserCookie
  /\ MapHas(sessionStore, resp.state)
  /\ now - sessionStore[resp.state].createdAt <= SESSION_EXPIRATION_MS
  /\ Count(served.session, BrowserCookie) = 1

(***************************************************************************)
(* Callbacks refused before the session lookup (SpecSession).              *)
(***************************************************************************)
\* the request is refused by one of the checks callback makes before it
\* calls getSession
RefusedBeforeLookup(req) ==
  \/ req.error # ""
  \/ req.code = ""
  \/ req.state = 0
  \/ req.cookie # req.state

\* C36: a callback that carries the provider's error parameter, lacks the
\* code or the state, or whose cookie differs from the state returns 400 and
\* leaves the session store, the served sessions and the calls in flight as
\* they were; and a callback that passes those checks for a state whose
\* session is stored and not older than its lifetime is served that session,
\* whatever was refused before it.
C36_RefusalKeepsSession ==
  [][\A req \in CallbackRequests :
       /\ (/\ RefusedBeforeLookup(req)
           /\ resp'.op = "callback"
           /\ callbackBegin(req.error, req.code, req.state, req.provider, req.cookie))
            => /\ resp'.status = 400
               /\ resp'.error \in {"Authentication failed",
                                   "Authorization code is required",
                                   "State parameter is required",
                                   "Invalid state parameter"}
               /\ ~resp'.hit
               /\ sessionStore' = sessionStore
               /\ served' = served
               /\ inflight' = inflight
       /\ (/\ ~RefusedBeforeLookup(req)
           /\ MapHas(sessionStore, req.state)
           /\ now - sessionStore[req.state].createdAt <= SESSION_EXPIRATION_MS
           /\ callbackBegin(req.error, req.code, req.state, req.provider, req.cookie))
            => /\ Count(served'.session, req.state) = Count(served.session, req.state) + 1
               /\ ~MapHas(sessionStore', req.state)
               /\ resp'.op = "callback_await" <=> inflight' # inflight
               /\ resp'.op = "callback_await"
                    \/ (resp'.status = 500 /\ sessionStore[req.state].provider = "google"
                        /\ ~googleService)]_vars

\* a callback that carried the provider's error parameter has been refused
\* while a session is stored, not older than its lifetime and never served
C36_Witness ==
  /\ resp.op = "callback"
  /\ resp.status = 400
  /\ resp.error = "Authentication failed"
  /\ \E s \in DOMAIN sessionStore :
       /\ now - sessionStore[s].createdAt <= SESSION_EXPIRATION_MS
       /\ Count(served.session, s) = 0

(***************************************************************************)
(* Callbacks that end in an error (SpecRedirect).                          *)
(***************************************************************************)
\* logins under either provider; the last one names a redirect_uri whose
\* part before '?' is the empty entry of the allow-list
RedirectLoginRequests ==
  { LoginRequest("app1", <<"https://app1/cb">>, ""),
    LoginRequest("app2", <<"https://app2/cb", "?", "x=1">>, "google"),
    LoginRequest("app1", <<"?", "x=1">>, "") }

NextRedirect ==
  \/ Tick(SESSION_EXPIRATION_MS)
  \/ Login(RedirectLoginRequests, MaxSpokeSessions)
  \/ CallbackBegin(CallbackRequests)
  \/ CallbackFinish

SpecRedirect == Init /\ [][NextRedirect]_vars

\* C37: a callback that answers with an error, 400 or 500, leaves the
\* refresh-token store and the exchange-code store as they were; the two
\* stores change only in a callback that answers with the redirect to the
\* spoke app.
C37_IssuanceAllOrNothing ==
  [][(resp'.op = "callback" /\ resp'.status # 302)
       => /\ refreshStore' = refreshStore
          /\ exchangeStore' = exchangeStore]_vars

(***************************************************************************)
(* complete and verify-otp on one start token (SpecSignup).                *)
(***************************************************************************)
\* C38: complete and verify-otp read the same store: a token stored by start
\* is handed to at most one request of the two; once the newest token of the
\* email has been handed out, a well-formed complete and a well-formed
\* verify-otp for the email both return 401 expired_token and go to no
\* provider; and complete neither reads nor changes the post-OTP store, so
\* it is refused also while the token of a successful verify-otp is stored.
C38_OneStartToken ==
  [][/\ \A tok \in DOMAIN signupLog : Count(served'.signup, tok) <= 1
     /\ \A req \in CompleteRequests :
          (/\ resp'.op \in {"complete", "complete_await"}
           /\ signupCompleteBegin(req.email, req.code, req.password,
                                  req.displayName, req.role))
            => /\ postOtpStore' = postOtpStore
               /\ stageLog' = stageLog
               /\ (/\ HasText(req.email) /\ HasText(req.code) /\ req.password # ""
                   /\ HasText(req.displayName) /\ HasText(req.role)
                   /\ LatestStartServed(req.email))
                    => /\ resp'.op = "complete"
                       /\ resp'.status = 401
                       /\ resp'.error = "expired_token"
                       /\ signupInflight' = signupInflight
     /\ \A email \in EmailInputs : \A code \in OtpInputs :
          (/\ HasText(email) /\ HasText(code)
           /\ resp'.op \in {"verify_otp", "verify_otp_await"}
           /\ \E r \in DOMAIN signupInflight :
                /\ signupInflight[r].op = "complete"
                /\ signupInflight[r].email = LowerTrimEmail(email)
           /\ LatestStartServed(email)
           /\ signupVerifyOtpBegin(email, code))
            => /\ resp'.op = "verify_otp"
               /\ resp'.status = 401
               /\ resp'.error = "expired_token"
               /\ signupInflight' = signupInflight]_vars

\* a verify-otp took the start token and stored a post-OTP token, and a
\* complete for the email has been refused while that token is stored, unused
\* and not older than its lifetime
C38_Witness ==
  /\ resp.op = "complete"
  /\ resp.status = 401
  /\ resp.error = "expired_token"
  /\ LatestStartServed(resp.email)
  /\ MapHas(postOtpStore, resp.email)
  /\ StageTokenPending(stageLog.postOtp, resp.email)

(***************************************************************************)
(* The lifetime of a chain of refresh tokens (SpecTokens).                 *)
(***************************************************************************)
\* C39: whether a refresh succeeds depends on the age of the presented token
\* alone: a refresh that presents a stored token no older than the lifetime
\* returns 200, however long ago the sign-in was, and stores the new token
\* with the time of the refresh as its creation time, so the new token is
\* good for a whole lifetime from then on.
C39_SlidingLifetime ==
  [][\A rt \in DOMAIN refreshStore :
       (/\ now - refreshStore[rt].createdAt <= getRefreshTokenTTL
        /\ resp'.op = "refresh"
        /\ refreshToken(rt))
         => /\ resp'.status = 200
            /\ resp'.body.refresh_token \notin DOMAIN refreshLog
            /\ MapHas(refreshStore', resp'.body.refresh_token)
            /\ refreshStore'[resp'.body.refresh_token].createdAt = now
            /\ now' = now]_vars

\* a refresh has returned 200 more than one lifetime after the sign-in that
\* created the first token of the chain, and its new token starts a lifetime
\* of its own
C39_Witness ==
  /\ resp.op = "refresh"
  /\ resp.status = 200
  /\ MapHas(refreshLog, 1)
  /\ now - refreshLog[1].createdAt > getRefreshTokenTTL
  /\ MapHas(refreshStore, resp.body.refresh_token)
  /\ refreshStore[resp.body.refresh_token].createdAt = now

====
